---- MODULE Spec2Model ----
(***************************************************************************)
(* A model of the pixel-art dungeon crawler: the procedural map generator, *)
(* the per-frame simulation (movement, collision, stamina, pickups,        *)
(* leveling, inventory, selling) and the save/load service.                *)
(*                                                                         *)
(* Units.  Pixel positions are kept in hundredths of a pixel and stamina   *)
(* in thousandths of a point, frame times in whole milliseconds, so that   *)
(* speed * deltaTime and rate * deltaTime are exact integers:              *)
(*   px/s * ms  = speed * dt / 10  hundredths of a pixel                   *)
(*   pt/s * ms  = rate * dt        thousandths of a point                  *)
(***************************************************************************)
EXTENDS Integers, Sequences, FiniteSets, TLC

(***************************************************************************)
(* Program constants (utils/pixel-art-constants, DOOM-style configuration) *)
(***************************************************************************)
BASE_WIDTH == 24
BASE_HEIGHT == 24
WIDTH_PER_LEVEL == 6
HEIGHT_PER_LEVEL == 6
MAX_WIDTH == 64
MAX_HEIGHT == 64
MAX_LEVEL == 99
TILE_SIZE == 48
WALK_SPEED == 150
RUN_SPEED == 280
PLAYER_RADIUS == 12
MAX_STAMINA == 100
STAMINA_DRAIN_RATE == 15
STAMINA_RECOVERY_RATE == 8
MAX_HEALTH == 100
STARTING_HEALTH == 100
COIN_XP_VALUE == 1
RARE_ITEM_XP_VALUE == 10
INVENTORY_SIZE == 10
ITEM_PICKUP_RADIUS == 24
POTION_HEALTH_RESTORE == 25
STAMINA_POTION_RESTORE == 50
SAVE_VERSION == 13
EXIT_RADIUS == 24
COINS_BASE == 15
COINS_PER_LEVEL == 5
POTIONS_BASE == 5
POTIONS_PER_LEVEL == 2
STAMINA_POTIONS_BASE == 3
STAMINA_POTIONS_PER_LEVEL == 1
RARE_ITEMS_BASE == 2
RARE_ITEMS_PER_LEVEL == 1
XP_PER_LEVEL == <<0, 10, 25, 50, 100, 200, 350, 550, 800, 1200, 1700, 2300, 3000, 3800, 4700>>

\* Conversions to the model's units (see the header).
Px(n) == n * 100
Pt(n) == n * 1000

(***************************************************************************)
(* Bounds of the model                                                     *)
(***************************************************************************)
\* Highest floor level whose generation is explored.
MaxMapLevel == 2

Min(a, b) == IF a < b THEN a ELSE b
Max(a, b) == IF a > b THEN a ELSE b
Abs(a) == IF a < 0 THEN -a ELSE a

(***************************************************************************)
(* Map generator (domain/game/MapGenerator.ts)                             *)
(***************************************************************************)
getMapSizeForLevel(level) ==
  LET clampedLevel == Min(level, MAX_LEVEL)
  IN [width |-> Min(BASE_WIDTH + (clampedLevel - 1) * WIDTH_PER_LEVEL, MAX_WIDTH),
      height |-> Min(BASE_HEIGHT + (clampedLevel - 1) * HEIGHT_PER_LEVEL, MAX_HEIGHT)]

Cells(w, h) == (0 .. w - 1) \X (0 .. h - 1)

\* this.tiles after "Array(height).fill(..).map(() => Array(width).fill(WALL))"
WallGrid(w, h) == [c \in Cells(w, h) |-> "WALL"]

\* tiles[y]?.[x]: undefined outside the grid
TileAt(tiles, x, y) == IF <<x, y>> \in DOMAIN tiles THEN tiles[<<x, y>>] ELSE "undefined"

\* A Room record; centerX = Math.floor(x + width / 2)
MkRoom(x, y, w, h, type) ==
  [x |-> x, y |-> y, width |-> w, height |-> h,
   centerX |-> x + (w \div 2), centerY |-> y + (h \div 2), roomType |-> type]

InRoom(room, x, y) ==
  /\ x >= room.x /\ x < room.x + room.width
  /\ y >= room.y /\ y < room.y + room.height

roomsOverlapWithMargin(roomA, roomB, margin) ==
  /\ roomA.x - margin < roomB.x + roomB.width
  /\ roomA.x + roomA.width + margin > roomB.x
  /\ roomA.y - margin < roomB.y + roomB.height
  /\ roomA.y + roomA.height + margin > roomB.y

roomsOverlap(roomA, roomB) == roomsOverlapWithMargin(roomA, roomB, 3)

carveRoom(g, room) ==
  [g EXCEPT !.tiles =
     [c \in DOMAIN g.tiles |->
        IF /\ InRoom(room, c[1], c[2])
           /\ c[1] > 0 /\ c[1] < g.width - 1 /\ c[2] > 0 /\ c[2] < g.height - 1
        THEN "FLOOR" ELSE g.tiles[c]]]

\* The generator object right after "new MapGenerator(mapLevel)" and the
\* wall fill that opens generateMap.
NewGenerator(mapLevel) ==
  LET size == getMapSizeForLevel(mapLevel)
  IN [mapLevel |-> mapLevel, width |-> size.width, height |-> size.height,
      tiles |-> WallGrid(size.width, size.height), rooms |-> <<>>]

\* Ranges of the random draws of one room attempt of generateRooms.
minRoomSize == 5
maxRoomSize(g) == Min(9, g.width \div 4)
roomCount(g) == Max(4, (g.width * g.height) \div 80)

RoomPickValid(g, p) ==
  /\ p.w >= minRoomSize /\ p.w <= maxRoomSize(g)
  /\ p.h >= minRoomSize /\ p.h <= maxRoomSize(g)
  /\ p.x >= 2 /\ p.x <= g.width - p.w - 2
  /\ p.y >= 2 /\ p.y <= g.height - p.h - 2

\* One iteration of the attempt loop of generateRooms with the random room p.
attemptRoom(g, p) ==
  LET newRoom == MkRoom(p.x, p.y, p.w, p.h, "normal")
      overlaps == \E i \in 1 .. Len(g.rooms) : roomsOverlap(newRoom, g.rooms[i])
  IN IF Len(g.rooms) >= roomCount(g) \/ overlaps THEN g
     ELSE [carveRoom(g, newRoom) EXCEPT !.rooms = Append(g.rooms, newRoom)]

\* The tail of generateRooms: "Гарантируем хотя бы 2 комнаты".
fallbackRooms(g) ==
  IF Len(g.rooms) >= 2 THEN g
  ELSE LET startRoom == [MkRoom(3, 3, 6, 6, "normal") EXCEPT !.centerX = 6, !.centerY = 6]
           exitRoom == [MkRoom(g.width - 9, g.height - 9, 6, 6, "normal")
                          EXCEPT !.centerX = g.width - 6, !.centerY = g.height - 6]
           g1 == carveRoom(g, startRoom)
           g2 == carveRoom([g1 EXCEPT !.rooms = Append(g1.rooms, startRoom)], exitRoom)
       IN [g2 EXCEPT !.rooms = Append(g2.rooms, exitRoom)]

RECURSIVE attemptRooms(_, _)
attemptRooms(g, picks) ==
  IF picks = <<>> THEN g ELSE attemptRooms(attemptRoom(g, Head(picks)), Tail(picks))

\* generateRooms with the sequence of random rooms drawn by its attempts
\* (attempts after the last one of picks all overlap and change nothing).
generateRooms(g, picks) == fallbackRooms(attemptRooms(g, picks))

\* Range of the random shop index: randomInt(1, Math.max(1, rooms.length - 2))
ShopIndices(g) == 1 .. Max(1, Len(g.rooms) - 2)

addShopRoom(g, shopIndex) ==
  IF Len(g.rooms) < 3 THEN g
  ELSE [g EXCEPT !.rooms[shopIndex + 1].roomType = "shop"]

\* Range of the random vault origin: randomInt(3, width - treasureWidth - 3)
TreasurePickValid(g, p) ==
  /\ p.x >= 3 /\ p.x <= g.width - 5 - 3
  /\ p.y >= 3 /\ p.y <= g.height - 5 - 3

\* One attempt of addTreasureRoom ending the loop with the vault at p, or
\* (p = NoVault) all 200 attempts overlapping.
NoVault == [x |-> 0, y |-> 0]

addTreasureRoom(g, p) ==
  IF g.mapLevel < 2 \/ Len(g.rooms) < 2 \/ p = NoVault THEN g
  ELSE LET treasureRoom == MkRoom(p.x, p.y, 5, 5, "treasure")
           overlaps == \E i \in 1 .. Len(g.rooms) :
                          roomsOverlapWithMargin(treasureRoom, g.rooms[i], 2)
           carved == carveRoom(g, treasureRoom)
       IN IF overlaps THEN g
          ELSE [carved EXCEPT
                  !.rooms = Append(g.rooms, treasureRoom),
                  !.tiles = [c \in DOMAIN carved.tiles |->
                               IF InRoom(treasureRoom, c[1], c[2]) /\ carved.tiles[c] = "FLOOR"
                               THEN "FLOOR_LIGHT" ELSE carved.tiles[c]]]

\* Cells visited by the two loops of carveCorridor: the row y1 from x1 up to
\* but excluding x2, then the column x2 from y1 up to but excluding y2.
CorridorCells(x1, y1, x2, y2) ==
  {<<x, y1>> : x \in IF x1 <= x2 THEN x1 .. x2 - 1 ELSE x2 + 1 .. x1}
    \cup {<<x2, y>> : y \in IF y1 <= y2 THEN y1 .. y2 - 1 ELSE y2 + 1 .. y1}

carveCorridor(g, x1, y1, x2, y2) ==
  LET path == CorridorCells(x1, y1, x2, y2)
  IN [g EXCEPT !.tiles =
        [c \in DOMAIN g.tiles |->
           IF /\ c \in path
              /\ c[1] > 0 /\ c[1] < g.width - 1 /\ c[2] > 0 /\ c[2] < g.height - 1
              /\ g.tiles[c] = "WALL"
           THEN "FLOOR" ELSE g.tiles[c]]]

connectPair(g, roomA, roomB) ==
  carveCorridor(g, roomA.centerX, roomA.centerY, roomB.centerX, roomB.centerY)

\* Array.prototype.sort is stable: insertion of each element after the
\* elements whose key is less than or equal to its own.
\* The sort key of both sorts is centerX + centerY, ascending (sign 1, in
\* connectRooms) or descending (sign -1, in addExit).
CenterSum(r) == r.centerX + r.centerY

RECURSIVE InsertByKey(_, _, _)
InsertByKey(sorted, r, sign) ==
  IF sorted = <<>> THEN <<r>>
  ELSE IF sign * CenterSum(r) < sign * CenterSum(Head(sorted)) THEN <<r>> \o sorted
       ELSE <<Head(sorted)>> \o InsertByKey(Tail(sorted), r, sign)

RECURSIVE StableSort(_, _)
StableSort(s, sign) ==
  IF s = <<>> THEN <<>>
  ELSE InsertByKey(StableSort(SubSeq(s, 1, Len(s) - 1), sign), s[Len(s)], sign)

SelectSeq2(s, Test(_)) == SelectSeq(s, Test)
\* A filter that keeps every room, whatever its type.
IsAnyRoom(r) == r.roomType \in {"normal", "shop", "treasure"}
IsNormal(r) == r.roomType = "normal"
IsTreasure(r) == r.roomType = "treasure"
IsShop(r) == r.roomType = "shop"

RECURSIVE connectChain(_, _, _)
connectChain(g, sorted, i) ==
  IF i > Len(sorted) THEN g
  ELSE connectChain(connectPair(g, sorted[i - 1], sorted[i]), sorted, i + 1)

\* "let nearestRoom = normalRooms[0]; ... if (dist < minDist)": the first
\* normal room at the least city-block distance.
nearestNormalRoom(normalRooms, treasureRoom) ==
  LET dist(r) == Abs(r.centerX - treasureRoom.centerX) + Abs(r.centerY - treasureRoom.centerY)
      best == CHOOSE i \in 1 .. Len(normalRooms) :
                 /\ \A j \in 1 .. Len(normalRooms) : dist(normalRooms[i]) <= dist(normalRooms[j])
                 /\ \A j \in 1 .. i - 1 : dist(normalRooms[j]) > dist(normalRooms[i])
  IN normalRooms[best]

extraConnections(g) == Max(1, Len(g.rooms) \div 4)

RECURSIVE connectExtras(_, _)
connectExtras(g, pairs) ==
  IF pairs = <<>> THEN g
  ELSE LET a == Head(pairs)[1] + 1
           b == Head(pairs)[2] + 1
       IN connectExtras(IF a # b THEN connectPair(g, g.rooms[a], g.rooms[b]) ELSE g,
                        Tail(pairs))

\* connectRooms with the random index pairs of its extra connections.
connectRooms(g, pairs) ==
  IF Len(g.rooms) < 2 THEN g
  ELSE LET sortedRooms == StableSort(g.rooms, 1)
           chained == connectChain(g, sortedRooms, 2)
           treasure == SelectSeq2(g.rooms, IsTreasure)
           normalRooms == SelectSeq2(g.rooms, IsNormal)
           guarded == IF treasure # <<>> /\ normalRooms # <<>>
                      THEN connectPair(chained, nearestNormalRoom(normalRooms, treasure[1]),
                                       treasure[1])
                      ELSE chained
       IN connectExtras(guarded, pairs)

\* First FLOOR cell of the room in the scan order of addExit (y outer, x inner).
FirstFloorInRoom(g, room) ==
  LET cand == {c \in DOMAIN g.tiles : InRoom(room, c[1], c[2]) /\ g.tiles[c] = "FLOOR"}
  IN IF cand = {} THEN <<-1, -1>>
     ELSE CHOOSE c \in cand : \A d \in cand : c[2] < d[2] \/ (c[2] = d[2] /\ c[1] <= d[1])

addExit(g) ==
  LET normalRooms == SelectSeq2(g.rooms, IsNormal)
  IN IF Len(g.rooms) = 0 \/ normalRooms = <<>> THEN g
     ELSE LET exitRoom == StableSort(normalRooms, -1)[1]
              center == <<exitRoom.centerX, exitRoom.centerY>>
              other == FirstFloorInRoom(g, exitRoom)
          IN IF TileAt(g.tiles, center[1], center[2]) = "FLOOR"
             THEN [g EXCEPT !.tiles[center] = "EXIT"]
             ELSE IF other # <<-1, -1>> THEN [g EXCEPT !.tiles[other] = "EXIT"]
                  ELSE g

obstacleCount(room) == (room.width * room.height) \div 25

\* Range of one random obstacle draw in a room, as offsets from its origin:
\* randomInt(room.x + 1, room.x + room.width - 2)
ObstacleOffsetValid(room, o) ==
  /\ o[1] >= 1 /\ o[1] <= room.width - 2
  /\ o[2] >= 1 /\ o[2] <= room.height - 2

\* addObstacles where every draw of every room lands on offset o of the room
\* (a draw is skipped by the code when it is near the centre or not FLOOR; a
\* placed OBSTACLE is no longer FLOOR, so repeated draws add nothing).
addObstacles(g, o) ==
  LET hit == {<<g.rooms[i].x + o[1], g.rooms[i].y + o[2]>> :
                i \in {j \in 1 .. Len(g.rooms) :
                         obstacleCount(g.rooms[j]) >= 1 /\ ObstacleOffsetValid(g.rooms[j], o)}}
      farFromCenter(c) ==
        \E i \in 1 .. Len(g.rooms) :
           /\ c = <<g.rooms[i].x + o[1], g.rooms[i].y + o[2]>>
           /\ obstacleCount(g.rooms[i]) >= 1 /\ ObstacleOffsetValid(g.rooms[i], o)
           /\ Abs(c[1] - g.rooms[i].centerX) + Abs(c[2] - g.rooms[i].centerY) > 2
  IN [g EXCEPT !.tiles =
        [c \in DOMAIN g.tiles |->
           IF c \in hit /\ farFromCenter(c) /\ g.tiles[c] = "FLOOR"
           THEN "OBSTACLE" ELSE g.tiles[c]]]

isPassable(tiles, x, y) ==
  TileAt(tiles, x, y) \in {"FLOOR", "FLOOR_LIGHT", "DOOR", "DOOR_WIDE", "DOOR_OPEN",
                           "DOOR_WIDE_OPEN", "EXIT"}

\* The scan of placeDoors.  A cell turned into DOOR stays passable and was
\* never WALL, so the tests of later cells read the same answers as on the
\* grid before the scan: the in-place scan equals this pointwise map.
markDoors(g) ==
  LET t == g.tiles
      isHorizontalPassage(x, y) ==
        /\ t[<<x, y - 1>>] = "WALL" /\ t[<<x, y + 1>>] = "WALL"
        /\ isPassable(t, x - 1, y) /\ isPassable(t, x + 1, y)
      isVerticalPassage(x, y) ==
        /\ t[<<x - 1, y>>] = "WALL" /\ t[<<x + 1, y>>] = "WALL"
        /\ isPassable(t, x, y - 1) /\ isPassable(t, x, y + 1)
  IN [g EXCEPT !.tiles =
        [c \in DOMAIN t |->
           IF /\ c[1] >= 1 /\ c[1] < g.width - 1 /\ c[2] >= 1 /\ c[2] < g.height - 1
              /\ t[c] \in {"FLOOR", "FLOOR_LIGHT"}
              /\ (isHorizontalPassage(c[1], c[2]) \/ isVerticalPassage(c[1], c[2]))
           THEN "DOOR" ELSE t[c]]]

\* upgradeToWideDoors: the row pass turns every maximal run of two or more
\* DOOR cells of a row (rows 1..height-2, columns 1..width-1) into DOOR_WIDE;
\* the column pass then does the same on the result, column by column.
upgradeRows(g) ==
  LET t == g.tiles
      inRun(x, y) ==
        /\ y >= 1 /\ y < g.height - 1 /\ x >= 1 /\ x <= g.width - 1
        /\ t[<<x, y>>] = "DOOR"
        /\ \/ (x - 1 >= 1 /\ t[<<x - 1, y>>] = "DOOR")
           \/ (x + 1 <= g.width - 1 /\ t[<<x + 1, y>>] = "DOOR")
  IN [g EXCEPT !.tiles = [c \in DOMAIN t |-> IF inRun(c[1], c[2]) THEN "DOOR_WIDE" ELSE t[c]]]

\* A widening that leaves out the column pass.
upgradeColumnsSkipped(g) == g

upgradeColumns(g) ==
  LET t == g.tiles
      inRun(x, y) ==
        /\ x >= 1 /\ x < g.width - 1 /\ y >= 1 /\ y <= g.height - 1
        /\ t[<<x, y>>] = "DOOR"
        /\ \/ (y - 1 >= 1 /\ t[<<x, y - 1>>] = "DOOR")
           \/ (y + 1 <= g.height - 1 /\ t[<<x, y + 1>>] = "DOOR")
  IN [g EXCEPT !.tiles = [c \in DOMAIN t |-> IF inRun(c[1], c[2]) THEN "DOOR_WIDE" ELSE t[c]]]

upgradeToWideDoors(g) == upgradeColumns(upgradeRows(g))

\* Cells next to the four borders of the room, as visited by checkAndReplace.
BorderCells(room) ==
  {<<x, room.y - 1>> : x \in room.x .. room.x + room.width - 1}
    \cup {<<x, room.y + room.height>> : x \in room.x .. room.x + room.width - 1}
    \cup {<<room.x - 1, y>> : y \in room.y .. room.y + room.height - 1}
    \cup {<<room.x + room.width, y>> : y \in room.y .. room.y + room.height - 1}

\* A replacement that turns the doors next to the vault into vault doors and
\* leaves plain floor as it is.
replaceTreasureRoomDoorsOnly(g, room) ==
  [g EXCEPT !.tiles =
     [c \in DOMAIN g.tiles |->
        IF c \in BorderCells(room) /\ g.tiles[c] \in {"DOOR", "DOOR_WIDE"}
        THEN "TREASURE_DOOR" ELSE g.tiles[c]]]

replaceTreasureRoomDoors(g, room) ==
  [g EXCEPT !.tiles =
     [c \in DOMAIN g.tiles |->
        IF c \in BorderCells(room)
           /\ g.tiles[c] \in {"DOOR", "DOOR_WIDE", "FLOOR", "FLOOR_LIGHT"}
        THEN "TREASURE_DOOR" ELSE g.tiles[c]]]

placeDoors(g) ==
  LET widened == upgradeToWideDoors(markDoors(g))
      treasure == SelectSeq2(g.rooms, IsTreasure)
  IN IF treasure # <<>> THEN replaceTreasureRoomDoors(widened, treasure[1]) ELSE widened

\* "if (this.tiles[terminalY]?.[terminalX])": every tile type is a non-empty
\* string, so the test only asks that the cell is in the grid.
addTerminal(g) ==
  LET shop == SelectSeq2(g.rooms, IsShop)
  IN IF shop = <<>> THEN g
     ELSE LET c == <<shop[1].centerX, shop[1].centerY>>
          IN IF c \in DOMAIN g.tiles THEN [g EXCEPT !.tiles[c] = "TERMINAL"] ELSE g

\* generateMap with all its random draws given by the seed.
generateMap(mapLevel, seed) ==
  LET g1 == generateRooms(NewGenerator(mapLevel), seed.rooms)
      g2 == addShopRoom(g1, seed.shopIndex)
      g3 == addTreasureRoom(g2, seed.treasure)
      g4 == connectRooms(g3, seed.extra)
      g5 == addExit(g4)
      g6 == addObstacles(g5, seed.obstacle)
      g7 == placeDoors(g6)
  IN addTerminal(g7)

\* The GameMap returned by generateMap (width, height, tiles).
GameMapOf(g) == [width |-> g.width, height |-> g.height, tiles |-> g.tiles]

(***************************************************************************)
(* Spawn position (domain/game/GameStateManager.ts)                        *)
(***************************************************************************)
\* Centre of a tile in model position units.
TileCenter(t) == t * Px(TILE_SIZE) + Px(TILE_SIZE) \div 2
\* Math.floor(p / tileSize)
TileOf(p) == p \div Px(TILE_SIZE)

\* The last EXIT cell of the scan (y outer, x inner), else the bottom-right corner.
ExitCellOf(map) ==
  LET exits == {c \in DOMAIN map.tiles : map.tiles[c] = "EXIT"}
  IN IF exits = {} THEN <<map.width - 1, map.height - 1>>
     ELSE CHOOSE c \in exits : \A d \in exits : d[2] < c[2] \/ (d[2] = c[2] /\ d[1] <= c[1])

\* FLOOR cells sorted by descending distance from the exit with a stable
\* sort: the first one is the farthest cell that the scan meets first.
findSafeSpawnPosition(map) ==
  LET exit == ExitCellOf(map)
      floors == {c \in DOMAIN map.tiles : map.tiles[c] = "FLOOR"}
      distance(c) == Abs(c[1] - exit[1]) + Abs(c[2] - exit[2])
      far == {c \in floors : \A d \in floors : distance(d) <= distance(c)}
      pos == CHOOSE c \in far : \A d \in far : c[2] < d[2] \/ (c[2] = d[2] /\ c[1] <= d[1])
  IN IF floors # {}
     THEN [x |-> TileCenter(pos[1]), y |-> TileCenter(pos[2])]
     ELSE [x |-> TileCenter(map.width \div 2), y |-> TileCenter(map.height \div 2)]

(***************************************************************************)
(* Levels and experience (domain/experience)                               *)
(***************************************************************************)
\* The loop of calculateLevel from index i with the thresholds summed so far.
RECURSIVE levelFrom(_, _, _, _)
levelFrom(experience, i, totalXP, level) ==
  IF i >= Len(XP_PER_LEVEL) THEN level
  ELSE LET xpNeeded == XP_PER_LEVEL[i + 1]
       IN IF experience >= totalXP + xpNeeded
          THEN levelFrom(experience, i + 1, totalXP + xpNeeded, i + 1)
          ELSE level

\* A level calculation that stops after the first threshold it crosses.
calculateLevelOneStep(experience) == IF experience >= XP_PER_LEVEL[2] THEN 2 ELSE 1

calculateLevel(experience) == levelFrom(experience, 1, 0, 1)

calculateExperienceToNextLevel(level) ==
  IF level >= Len(XP_PER_LEVEL) THEN 0 ELSE XP_PER_LEVEL[level + 1]

\* ExperienceSystem.addExperience: the new stats, levelIncreased, newLevel.
addExperience(currentStats, experienceGained) ==
  LET newExperience == currentStats.experience + experienceGained
      newLevel == calculateLevel(newExperience)
  IN [newStats |-> [currentStats EXCEPT
                      !.experience = newExperience,
                      !.level = newLevel,
                      !.experienceToNextLevel = calculateExperienceToNextLevel(newLevel)],
      levelIncreased |-> newLevel > currentStats.level,
      newLevel |-> newLevel]

(***************************************************************************)
(* Inventory (domain/inventory/InventoryManager.ts)                        *)
(***************************************************************************)
\* "item: null"
NoItem == [id |-> "null"]

createEmptyInventory == [i \in 1 .. INVENTORY_SIZE |-> [index |-> i - 1, item |-> NoItem]]

goesToInventory(itemType) == itemType = "RARE_ITEM"

\* The index field of the first slot whose item is null, or -1 for null.
findFreeSlot(slots) ==
  LET free == {i \in 1 .. Len(slots) : slots[i].item = NoItem}
  IN IF free = {} THEN -1
     ELSE slots[CHOOSE i \in free : \A j \in free : i <= j].index

\* A search for a free slot that never reports a full inventory.
findFreeSlotOrFirst(slots) == IF findFreeSlot(slots) = -1 THEN 0 ELSE findFreeSlot(slots)

\* InventoryManager.addItem: the boolean result and the slots afterwards.
addItem(slots, item) ==
  LET freeSlotIndex == findFreeSlot(slots)
  IN IF ~goesToInventory(item.type) \/ freeSlotIndex = -1
     THEN [ok |-> FALSE, slots |-> slots]
     ELSE [ok |-> TRUE,
           slots |-> [slots EXCEPT ![freeSlotIndex + 1] = [index |-> freeSlotIndex, item |-> item]]]

\* A removal that closes the gap instead of emptying the slot.
removeItemShift(slots, slotIndex) ==
  IF slotIndex < 0 \/ slotIndex >= Len(slots) THEN [ok |-> FALSE, slots |-> slots]
  ELSE [ok |-> TRUE,
        slots |-> SubSeq(slots, 1, slotIndex) \o SubSeq(slots, slotIndex + 2, Len(slots))]

\* InventoryManager.removeItem
removeItem(slots, slotIndex) ==
  IF slotIndex < 0 \/ slotIndex >= Len(slots) THEN [ok |-> FALSE, slots |-> slots]
  ELSE IF slots[slotIndex + 1].item = NoItem THEN [ok |-> FALSE, slots |-> slots]
  ELSE [ok |-> TRUE,
        slots |-> [slots EXCEPT ![slotIndex + 1] = [index |-> slotIndex, item |-> NoItem]]]

getUsedSlotsCount(slots) == Cardinality({i \in 1 .. Len(slots) : slots[i].item # NoItem})

(***************************************************************************)
(* Item collection (domain/items/ItemCollector.ts)                         *)
(***************************************************************************)
ITEM_XP_VALUES(itemType) ==
  IF itemType = "COIN" THEN COIN_XP_VALUE
  ELSE IF itemType = "RARE_ITEM" THEN RARE_ITEM_XP_VALUE
  ELSE 0

FailedCollection ==
  [success |-> FALSE, item |-> NoItem, experienceGained |-> 0, healthRestored |-> 0,
   staminaRestored |-> 0, addedToInventory |-> FALSE, inventory |-> <<>>]

\* A collection that grants the artifact's experience even when no slot is free.
collectItemNoRoomCheck(inventory, item) ==
  [success |-> TRUE, item |-> item, experienceGained |-> ITEM_XP_VALUES(item.type),
   healthRestored |-> 0, staminaRestored |-> 0,
   addedToInventory |-> addItem(inventory, item).ok,
   inventory |-> addItem(inventory, item).slots]

\* collectItem on a collector built over the inventory; the field inventory
\* is what getUpdatedInventory returns afterwards.  healthRestored and
\* staminaRestored are 0 where the code leaves them undefined.
collectItem(inventory, item) ==
  IF item.collected THEN [FailedCollection EXCEPT !.inventory = inventory]
  ELSE IF item.type = "COIN"
  THEN [success |-> TRUE, item |-> item, experienceGained |-> ITEM_XP_VALUES("COIN"),
        healthRestored |-> 0, staminaRestored |-> 0, addedToInventory |-> FALSE,
        inventory |-> inventory]
  ELSE IF item.type = "POTION"
  THEN [success |-> TRUE, item |-> item, experienceGained |-> 0,
        healthRestored |-> POTION_HEALTH_RESTORE, staminaRestored |-> 0,
        addedToInventory |-> FALSE, inventory |-> inventory]
  ELSE IF item.type = "STAMINA_POTION"
  THEN [success |-> TRUE, item |-> item, experienceGained |-> 0,
        healthRestored |-> 0, staminaRestored |-> Pt(STAMINA_POTION_RESTORE),
        addedToInventory |-> FALSE, inventory |-> inventory]
  ELSE IF item.type = "RARE_ITEM"
  THEN LET added == addItem(inventory, item)
       IN IF ~added.ok THEN [FailedCollection EXCEPT !.inventory = inventory]
          ELSE [success |-> TRUE, item |-> item,
                experienceGained |-> ITEM_XP_VALUES("RARE_ITEM"),
                healthRestored |-> 0, staminaRestored |-> 0,
                addedToInventory |-> TRUE, inventory |-> added.slots]
  ELSE [FailedCollection EXCEPT !.inventory = inventory]

(***************************************************************************)
(* Collision, doors and pickup (hooks/usePixelArtGame.ts)                  *)
(***************************************************************************)
\* Math.sqrt(dx * dx + dy * dy) < radius
closerThan(dx, dy, radius) ==
  Abs(dx) < radius /\ Abs(dy) < radius /\ dx * dx + dy * dy < radius * radius

DirectionVector(direction) ==
  IF direction = "UP" THEN [x |-> 0, y |-> -1]
  ELSE IF direction = "DOWN" THEN [x |-> 0, y |-> 1]
  ELSE IF direction = "LEFT" THEN [x |-> -1, y |-> 0]
  ELSE [x |-> 1, y |-> 0]

directionToAngle(direction) ==
  IF direction = "UP" THEN 270
  ELSE IF direction = "DOWN" THEN 90
  ELSE IF direction = "LEFT" THEN 180
  ELSE 0

\* The eight sample points of checkMapCollision around (x, y).
checkPoints(x, y) ==
  LET radius == Px(PLAYER_RADIUS)
  IN {<<x - radius, y - radius>>, <<x + radius, y - radius>>,
      <<x - radius, y + radius>>, <<x + radius, y + radius>>,
      <<x, y - radius>>, <<x, y + radius>>, <<x - radius, y>>, <<x + radius, y>>}

\* Math.floor(point / tileSize): TLA+'s \div rounds down as well.
PointBlocked(point, map) ==
  LET tileX == point[1] \div Px(TILE_SIZE)
      tileY == point[2] \div Px(TILE_SIZE)
  IN \/ tileX < 0 \/ tileX >= map.width \/ tileY < 0 \/ tileY >= map.height
     \/ map.tiles[<<tileX, tileY>>] \in {"WALL", "OBSTACLE", "DOOR", "DOOR_WIDE", "TREASURE_DOOR"}

\* A collision test that samples the centre of the player only.
checkMapCollisionCentre(x, y, map) == PointBlocked(<<x, y>>, map)

checkMapCollision(x, y, map) == \E point \in checkPoints(x, y) : PointBlocked(point, map)

\* The cells the loops of checkAndOpenDoors and of the proximity checks can
\* find closer than TILE_SIZE * 1.5: those at most two cells from the player's.
CellsAround(playerX, playerY, map) ==
  {c \in (TileOf(playerX) - 2 .. TileOf(playerX) + 2)
            \X (TileOf(playerY) - 2 .. TileOf(playerY) + 2) : c \in DOMAIN map.tiles}

\* A door check that opens every kind of closed door in range, vault doors
\* included.
checkAndOpenDoorsVaultToo(playerX, playerY, map) ==
  LET near == {c \in CellsAround(playerX, playerY, map) :
                 /\ map.tiles[c] \in {"DOOR", "DOOR_WIDE", "TREASURE_DOOR"}
                 /\ closerThan(playerX - TileCenter(c[1]), playerY - TileCenter(c[2]),
                               (3 * Px(TILE_SIZE)) \div 2)}
  IN [doorOpened |-> near # {},
      updatedTiles |->
        [c \in DOMAIN map.tiles |->
           IF c \in near /\ map.tiles[c] = "DOOR" THEN "DOOR_OPEN"
           ELSE IF c \in near /\ map.tiles[c] = "DOOR_WIDE" THEN "DOOR_WIDE_OPEN"
           ELSE IF c \in near THEN "TREASURE_DOOR_OPEN"
           ELSE map.tiles[c]]]

\* The closed doors closer than TILE_SIZE * 1.5 to the player open.
checkAndOpenDoors(playerX, playerY, map) ==
  LET near == {c \in CellsAround(playerX, playerY, map) :
                 /\ map.tiles[c] \in {"DOOR", "DOOR_WIDE"}
                 /\ closerThan(playerX - TileCenter(c[1]), playerY - TileCenter(c[2]),
                               (3 * Px(TILE_SIZE)) \div 2)}
      updatedTiles ==
        [c \in DOMAIN map.tiles |->
           IF c \in near /\ map.tiles[c] = "DOOR" THEN "DOOR_OPEN"
           ELSE IF c \in near /\ map.tiles[c] = "DOOR_WIDE" THEN "DOOR_WIDE_OPEN"
           ELSE map.tiles[c]]
  IN [doorOpened |-> near # {},
      updatedTiles |-> IF near = {} THEN map.tiles ELSE updatedTiles]

\* Index of the first uncollected item closer than the pickup radius, or 0.
checkItemPickup(playerPos, items) ==
  LET inReach == {i \in 1 .. Len(items) :
                    /\ ~items[i].collected
                    /\ closerThan(playerPos.x - items[i].position.x,
                                  playerPos.y - items[i].position.y,
                                  Px(ITEM_PICKUP_RADIUS))}
  IN IF inReach = {} THEN 0 ELSE CHOOSE i \in inReach : \A j \in inReach : i <= j

(***************************************************************************)
(* Item spawning (domain/items/ItemSpawner.ts)                             *)
(***************************************************************************)
getItemCountsForLevel(level) ==
  LET clampedLevel == Min(level, MAX_LEVEL)
  IN [coins |-> COINS_BASE + (clampedLevel - 1) * COINS_PER_LEVEL,
      potions |-> POTIONS_BASE + (clampedLevel - 1) * POTIONS_PER_LEVEL,
      staminaPotions |-> STAMINA_POTIONS_BASE + (clampedLevel - 1) * STAMINA_POTIONS_PER_LEVEL,
      rareItems |-> RARE_ITEMS_BASE + (clampedLevel - 1) * RARE_ITEMS_PER_LEVEL]

\* Scan order of the grid loops: y outer, x inner.
ScanBefore(c, d) == c[2] < d[2] \/ (c[2] = d[2] /\ c[1] < d[1])

CellPosition(c) == [x |-> TileCenter(c[1]), y |-> TileCenter(c[2])]

\* Cells of a type in scan order.
RECURSIVE ScanSeq(_)
ScanSeq(cells) ==
  IF cells = {} THEN <<>>
  ELSE LET first == CHOOSE c \in cells : \A d \in cells \ {c} : ScanBefore(c, d)
       IN <<first>> \o ScanSeq(cells \ {first})

\* spawnTreasureRoomItems where the shuffle leaves the scan order in place.
spawnTreasureRoomItems(map, stamp) ==
  LET treasurePositions == ScanSeq({c \in DOMAIN map.tiles : map.tiles[c] = "FLOOR_LIGHT"})
      treasureCount == Min(Max(10, Len(treasurePositions) - 3), Len(treasurePositions))
  IN [i \in 1 .. treasureCount |->
        [id |-> <<"treasure", stamp, i - 1>>,
         type |-> IF i - 1 < 5 THEN "RARE_ITEM"
                  ELSE IF i - 1 < 8 THEN "POTION"
                  ELSE IF i - 1 < 10 THEN "STAMINA_POTION"
                  ELSE "COIN",
         position |-> CellPosition(treasurePositions[i]),
         collected |-> FALSE]]

\* A draw of a floor position that does not look at the used positions.
getRandomFloorPositionUsedToo(map, usedPositions, preferred) ==
  LET floor == {c \in DOMAIN map.tiles : map.tiles[c] = "FLOOR"}
      pref == {i \in 1 .. Len(preferred) : preferred[i] \in floor}
  IN IF floor = {} THEN <<-1, -1>>
     ELSE IF pref # {} THEN preferred[CHOOSE i \in pref : \A j \in pref : i <= j]
     ELSE CHOOSE c \in floor : \A d \in floor \ {c} : ScanBefore(d, c)

\* getRandomFloorPosition where the shuffle puts the preferred cells first
\* and the other cells in reverse scan order; <<-1, -1>> stands for null.
getRandomFloorPosition(map, usedPositions, preferred) ==
  LET free == {c \in DOMAIN map.tiles : map.tiles[c] = "FLOOR"} \ usedPositions
      pref == {i \in 1 .. Len(preferred) : preferred[i] \in free}
  IN IF free = {} THEN <<-1, -1>>
     ELSE IF pref # {} THEN preferred[CHOOSE i \in pref : \A j \in pref : i <= j]
     ELSE CHOOSE c \in free : \A d \in free \ {c} : ScanBefore(d, c)

\* spawnItemsOnFloor from item number i on; the result carries the items and
\* the used positions.
RECURSIVE spawnItemsOnFloor(_, _, _, _, _, _, _, _)
spawnItemsOnFloor(map, type, count, idPrefix, stamp, i, usedPositions, preferred) ==
  LET position == getRandomFloorPosition(map, usedPositions, preferred)
  IN IF i >= count \/ position = <<-1, -1>>
     THEN [items |-> <<>>, usedPositions |-> usedPositions]
     ELSE LET rest == spawnItemsOnFloor(map, type, count, idPrefix, stamp, i + 1,
                                        usedPositions \cup {position}, preferred)
          IN [items |-> <<[id |-> <<idPrefix, stamp, i>>, type |-> type,
                            position |-> CellPosition(position), collected |-> FALSE]>>
                          \o rest.items,
              usedPositions |-> rest.usedPositions]

\* spawnAllItems; draw gives, per item type, the cells its shuffles put first.
spawnAllItems(map, mapLevel, stamp, draw) ==
  LET counts == getItemCountsForLevel(mapLevel)
      treasureItems == spawnTreasureRoomItems(map, stamp)
      usedPositions == {<<TileOf(treasureItems[i].position.x),
                          TileOf(treasureItems[i].position.y)>> :
                          i \in 1 .. Len(treasureItems)}
      coins == spawnItemsOnFloor(map, "COIN", counts.coins, "coin", stamp, 0,
                                 usedPositions, draw.coins)
      potions == spawnItemsOnFloor(map, "POTION", counts.potions, "potion", stamp, 0,
                                   coins.usedPositions, draw.potions)
      staminaPotions == spawnItemsOnFloor(map, "STAMINA_POTION", counts.staminaPotions,
                                          "stamina", stamp, 0, potions.usedPositions,
                                          draw.staminaPotions)
      rareItems == spawnItemsOnFloor(map, "RARE_ITEM", counts.rareItems, "rare", stamp, 0,
                                     staminaPotions.usedPositions, draw.rareItems)
  IN treasureItems \o coins.items \o potions.items \o staminaPotions.items \o rareItems.items

(***************************************************************************)
(* Game states (domain/game/GameStateManager.ts, PixelArtGameEngine.ts)    *)
(***************************************************************************)
\* An optional property holds <<>> for undefined and <<v>> for the value v;
\* a property an object does not have reads as undefined.
Field(object, name) == IF name \in DOMAIN object THEN object[name] ELSE <<>>

\* { ...object, name: value }
With(object, name, value) ==
  [f \in DOMAIN object \cup {name} |-> IF f = name THEN value ELSE object[f]]

\* The cells the shuffles of the item spawner put first, given relative to
\* the spawn cell.
DrawAt(map, offsets) ==
  LET spawn == findSafeSpawnPosition(map)
  IN [k \in 1 .. Len(offsets) |->
        <<TileOf(spawn.x) + offsets[k][1], TileOf(spawn.y) + offsets[k][2]>>]

\* The position findSafeSpawnPosition returns on the map and the items
\* spawnAllItems returns on it at time 0 for the draw.
FloorOn(map, mapLevel, draw) ==
  [map |-> map,
   spawn |-> findSafeSpawnPosition(map),
   items |-> spawnAllItems(map, mapLevel, 0,
                           [coins |-> DrawAt(map, draw.coins),
                            potions |-> DrawAt(map, draw.potions),
                            staminaPotions |-> DrawAt(map, draw.staminaPotions),
                            rareItems |-> DrawAt(map, draw.rareItems)])]

\* The outcomes of creating the state of one floor: the map generateMap
\* returns for the seed, the spawn position and the items spawned on it.
FloorOf(mapLevel, seed, draw) ==
  FloorOn(GameMapOf(generateMap(mapLevel, seed)), mapLevel, draw)

\* The items of the floor with the time of their creation in their ids.
itemsAt(floor, clock) ==
  [i \in 1 .. Len(floor.items) |-> [floor.items[i] EXCEPT !.id[2] = clock]]

createInitialState(mapLevel, floor, clock) ==
  LET map == floor.map
  IN [player |->
        [position |-> floor.spawn,
         direction |-> "DOWN",
         angle |-> 90,
         movementType |-> "IDLE",
         stats |-> [health |-> STARTING_HEALTH, maxHealth |-> MAX_HEALTH,
                    stamina |-> Pt(MAX_STAMINA), maxStamina |-> Pt(MAX_STAMINA),
                    level |-> 1, experience |-> 0,
                    experienceToNextLevel |-> XP_PER_LEVEL[2]],
         isMoving |-> FALSE,
         velocity |-> [x |-> 0, y |-> 0]],
      map |-> map,
      items |-> itemsAt(floor, clock),
      inventory |-> createEmptyInventory,
      coins |-> 0,
      collectedResources |-> [coins |-> 0, healthPotions |-> 0, staminaPotions |-> 0],
      isPaused |-> FALSE,
      isGameStarted |-> FALSE,
      gameStartTime |-> clock,
      lastSaveTime |-> clock,
      mapLevel |-> mapLevel]

\* A carry-over that restores the health completely.
carryOverFullHealth(currentState, fresh, clock) ==
  [With(currentState, "treasureRoomUnlocked", <<FALSE>>) EXCEPT
     !.player.position = fresh.player.position,
     !.player.direction = "DOWN",
     !.player.angle = 90,
     !.player.movementType = "IDLE",
     !.player.isMoving = FALSE,
     !.player.velocity = [x |-> 0, y |-> 0],
     !.player.stats.health = currentState.player.stats.maxHealth,
     !.player.stats.stamina = currentState.player.stats.maxStamina,
     !.map = fresh.map,
     !.items = fresh.items,
     !.isPaused = FALSE,
     !.isGameStarted = TRUE,
     !.lastSaveTime = clock,
     !.mapLevel = currentState.mapLevel + 1]

\* The state carried to the next floor, given the fresh state of that floor.
carryOver(currentState, fresh, clock) ==
  [With(currentState, "treasureRoomUnlocked", <<FALSE>>) EXCEPT
     !.player.position = fresh.player.position,
     !.player.direction = "DOWN",
     !.player.angle = 90,
     !.player.movementType = "IDLE",
     !.player.isMoving = FALSE,
     !.player.velocity = [x |-> 0, y |-> 0],
     !.player.stats.health = Min(currentState.player.stats.health + 20,
                                 currentState.player.stats.maxHealth),
     !.player.stats.stamina = currentState.player.stats.maxStamina,
     !.map = fresh.map,
     !.items = fresh.items,
     !.isPaused = FALSE,
     !.isGameStarted = TRUE,
     !.lastSaveTime = clock,
     !.mapLevel = currentState.mapLevel + 1]

createNextLevelState(currentState, floor, clock) ==
  carryOver(currentState, createInitialState(currentState.mapLevel + 1, floor, clock), clock)

\* GameStateManager.validateGameState
GameStateManager_validateGameState(state) ==
  /\ {"player", "map", "items", "inventory"} \subseteq DOMAIN state
  /\ state.player.position.x >= 0
  /\ state.player.position.x < state.map.width * Px(TILE_SIZE)
  /\ state.player.position.y >= 0
  /\ state.player.position.y < state.map.height * Px(TILE_SIZE)
  /\ state.player.stats.health >= 0
  /\ state.player.stats.health <= state.player.stats.maxHealth
  /\ state.player.stats.stamina >= 0
  /\ state.player.stats.stamina <= state.player.stats.maxStamina
  /\ state.player.stats.level >= 1
  /\ Len(state.inventory) = INVENTORY_SIZE
  /\ "coins" \in DOMAIN state => state.coins >= 0
  /\ "mapLevel" \in DOMAIN state
  /\ state.mapLevel >= 1

\* new PixelArtGameEngine(initialState); Null stands for no argument.
Null == [null |-> TRUE]

PixelArtGameEngine(initialState, floor, clock) ==
  IF initialState # Null /\ GameStateManager_validateGameState(initialState)
  THEN initialState
  ELSE createInitialState(1, floor, clock)

\* PixelArtGameEngine.startGame
engineStartGame(gameState, clock) ==
  [gameState EXCEPT !.isGameStarted = TRUE, !.gameStartTime = clock]

(***************************************************************************)
(* Saved games (services/storage/GameStateService.ts)                      *)
(***************************************************************************)
\* The storage holds one keyed blob: the JSON text of the last value set.
NoRecord == [present |-> FALSE]

\* The properties GameState declares optional.
OptionalProperties == {"treasureRoomUnlocked"}

\* The JSON text of a save record, given by the members it lists: a property
\* holding undefined is not written.
stringify(savedState) ==
  [version |-> savedState.version,
   timestamp |-> savedState.timestamp,
   members |-> {<<f, savedState.gameState[f]>> :
                  f \in {x \in DOMAIN savedState.gameState :
                           ~(x \in OptionalProperties /\ savedState.gameState[x] = <<>>)}}]

\* Parsing a text gives an object with the properties the text lists.
parse(text) ==
  [version |-> text.version,
   timestamp |-> text.timestamp,
   gameState |-> [f \in {m[1] : m \in text.members} |->
                    (CHOOSE m \in text.members : m[1] = f)[2]]]

storageSet(value) == [present |-> TRUE, text |-> stringify(value)]
storageGet(storage) == IF storage.present THEN parse(storage.text) ELSE Null
storageRemove(storage) == NoRecord

\* A save that leaves lastSaveTime as it is in the state.
saveGameStateUnstamped(gameState, clock) ==
  storageSet([version |-> SAVE_VERSION, timestamp |-> clock, gameState |-> gameState])

\* GameStateService.saveGameState at time clock: the storage afterwards.
saveGameState(gameState, clock) ==
  storageSet([version |-> SAVE_VERSION, timestamp |-> clock,
              gameState |-> With(gameState, "lastSaveTime", clock)])

\* GameStateService.validateGameState
GameStateService_validateGameState(gameState) ==
  /\ {"player", "map", "items", "inventory"} \subseteq DOMAIN gameState
  /\ gameState.player.position.x >= 0
  /\ gameState.player.position.x < gameState.map.width * Px(TILE_SIZE)
  /\ gameState.player.position.y >= 0
  /\ gameState.player.position.y < gameState.map.height * Px(TILE_SIZE)
  /\ "angle" \in DOMAIN gameState.player
  /\ "velocity" \in DOMAIN gameState.player
  /\ gameState.player.stats.health >= 0
  /\ gameState.player.stats.health <= gameState.player.stats.maxHealth
  /\ gameState.player.stats.stamina >= 0
  /\ gameState.player.stats.stamina <= gameState.player.stats.maxStamina
  /\ gameState.player.stats.level >= 1
  /\ Len(gameState.inventory) = INVENTORY_SIZE

\* GameStateService.deleteGameState
deleteGameState(storage) == storageRemove(storage)

\* loadGameState on the record the storage returned.
loadRecord(storage, savedState) ==
  IF savedState = Null THEN [result |-> Null, storage |-> storage]
  ELSE IF savedState.version # SAVE_VERSION
  THEN [result |-> Null, storage |-> deleteGameState(storage)]
  ELSE IF ~GameStateService_validateGameState(savedState.gameState)
  THEN [result |-> Null, storage |-> deleteGameState(storage)]
  ELSE [result |-> savedState.gameState, storage |-> storage]

\* A load that also accepts the records of older versions.
loadGameStateOlderToo(storage) ==
  IF storageGet(storage) = Null THEN [result |-> Null, storage |-> storage]
  ELSE IF storageGet(storage).version > SAVE_VERSION
            \/ ~GameStateService_validateGameState(storageGet(storage).gameState)
  THEN [result |-> Null, storage |-> deleteGameState(storage)]
  ELSE [result |-> storageGet(storage).gameState, storage |-> storage]

\* GameStateService.loadGameState: the value returned and the storage afterwards.
loadGameState(storage) == loadRecord(storage, storageGet(storage))

\* GameStateService.saveGameState on a storage whose write may fail: the
\* write returns false ("refused") or throws ("thrown", caught by the
\* service), and the record stays as it was.
trySaveGameState(storage, gameState, clock, fault) ==
  IF fault = "none"
  THEN [success |-> TRUE, storage |-> saveGameState(gameState, clock)]
  ELSE [success |-> FALSE, storage |-> storage]

(***************************************************************************)
(* Debounced and forced saves, reload on change (hooks/useGameState.ts)    *)
(***************************************************************************)
\* The refs and the state of one useGameState instance after its mount
\* effect loaded savedState.
useGameState(savedState) ==
  [lastSaveTimeRef |-> 0, lastForceSaveTimeRef |-> 0, savedState |-> savedState]

\* What a save call did: the hook and the storage afterwards, whether the
\* write was attempted and whether it succeeded.
SaveOutcome(hook, storage, attempted, written) ==
  [hook |-> hook, storage |-> storage, attempted |-> attempted, written |-> written]

\* The end of both save paths: the refs in stamped take the time on success.
afterWrite(hook, stamped, saved) ==
  SaveOutcome(IF saved.success THEN stamped ELSE hook, saved.storage, TRUE, saved.success)

\* A debounced save that does not look at the time of the last forced save.
useGameState_saveGameStateNoCooldown(hook, storage, state, clock, fault) ==
  IF clock - hook.lastSaveTimeRef < 1000
  THEN SaveOutcome(hook, storage, FALSE, FALSE)
  ELSE afterWrite(hook, [hook EXCEPT !.lastSaveTimeRef = clock],
                  trySaveGameState(storage, state, clock, fault))

\* A debounced save that notes the time of the save before it knows whether
\* the write succeeded.
useGameState_saveGameStateStampFirst(hook, storage, state, clock, fault) ==
  IF clock - hook.lastSaveTimeRef < 1000 \/ clock - hook.lastForceSaveTimeRef < 2000
  THEN SaveOutcome(hook, storage, FALSE, FALSE)
  ELSE SaveOutcome([hook EXCEPT !.lastSaveTimeRef = clock],
                   trySaveGameState(storage, state, clock, fault).storage, TRUE,
                   trySaveGameState(storage, state, clock, fault).success)

\* useGameState.saveGameState(state) at time clock
useGameState_saveGameState(hook, storage, state, clock, fault) ==
  IF clock - hook.lastSaveTimeRef < 1000
  THEN SaveOutcome(hook, storage, FALSE, FALSE)
  ELSE IF clock - hook.lastForceSaveTimeRef < 2000
  THEN SaveOutcome(hook, storage, FALSE, FALSE)
  ELSE afterWrite(hook, [hook EXCEPT !.lastSaveTimeRef = clock],
                  trySaveGameState(storage, state, clock, fault))

\* useGameState.forceSaveGameState(state) at time clock
useGameState_forceSaveGameState(hook, storage, state, clock, fault) ==
  afterWrite(hook, [hook EXCEPT !.lastSaveTimeRef = clock, !.lastForceSaveTimeRef = clock],
             trySaveGameState(storage, state, clock, fault))

\* A storage handler that keeps the savedState it has once it has one.
handleStorageChangeKeepingOwn(hook, storage) ==
  [hook |-> IF hook.savedState # Null THEN hook
            ELSE [hook EXCEPT !.savedState = loadGameState(storage).result],
   storage |-> loadGameState(storage).storage]

\* handleStorageChange for an event with the key of the game state
handleStorageChange(hook, storage) ==
  [hook |-> [hook EXCEPT !.savedState = loadGameState(storage).result],
   storage |-> loadGameState(storage).storage]

\* handleVisibilityChange when the page becomes hidden: the service writes
\* the savedState of the hook, when it has one of a started game.
handleVisibilityChange(hook, storage, clock, fault) ==
  IF hook.savedState # Null /\ hook.savedState.isGameStarted
  THEN afterWrite(hook, hook, trySaveGameState(storage, hook.savedState, clock, fault))
  ELSE SaveOutcome(hook, storage, FALSE, FALSE)

(***************************************************************************)
(* The game hook (hooks/usePixelArtGame.ts)                                *)
(***************************************************************************)
\* CHARACTER_PRESETS with the stats of CharacterCreation.handleConfirm.
CHARACTER_PRESETS(characterClass) ==
  IF characterClass = "SURVIVOR"
  THEN [health |-> 120, maxHealth |-> 120, stamina |-> Pt(100), maxStamina |-> Pt(100)]
  ELSE IF characterClass = "EXPLORER"
  THEN [health |-> 100, maxHealth |-> 100, stamina |-> Pt(120), maxStamina |-> Pt(120)]
  ELSE [health |-> 80, maxHealth |-> 80, stamina |-> Pt(150), maxStamina |-> Pt(150)]

handleConfirm(selectedClass) ==
  LET preset == CHARACTER_PRESETS(selectedClass)
  IN [health |-> preset.health, maxHealth |-> preset.maxHealth,
      stamina |-> preset.stamina, maxStamina |-> preset.maxStamina,
      level |-> 1, experience |-> 0, experienceToNextLevel |-> 10]

\* The profile part of the engine initialisation: the stats afterwards.
applyProfile(stats, userProfile) ==
  IF userProfile = Null THEN stats
  ELSE LET staminaBonus == Pt(userProfile.staminaUpgrades * 10)
           preset == CHARACTER_PRESETS(userProfile.selectedCharacterClass)
           needsUpdate ==
             /\ userProfile.selectedCharacterClass # "none"
             /\ \/ stats.maxHealth # preset.maxHealth
                \/ stats.maxStamina # preset.maxStamina + staminaBonus
           classStats ==
             IF needsUpdate
             THEN [stats EXCEPT !.health = preset.health, !.maxHealth = preset.maxHealth,
                                !.stamina = preset.stamina, !.maxStamina = preset.maxStamina]
             ELSE stats
       IN IF staminaBonus > 0
          THEN [classStats EXCEPT
                  !.maxStamina = classStats.maxStamina + staminaBonus,
                  !.stamina = Min(classStats.stamina + staminaBonus,
                                  classStats.maxStamina + staminaBonus)]
          ELSE classStats

\* The player is closer than radius to the centre of some cell of the types.
nearTileOfType(playerPos, map, types, radius) ==
  \E c \in CellsAround(playerPos.x, playerPos.y, map) :
     /\ map.tiles[c] \in types
     /\ closerThan(playerPos.x - TileCenter(c[1]), playerPos.y - TileCenter(c[2]), radius)

checkOnExit(playerPos, map) == nearTileOfType(playerPos, map, {"EXIT"}, Px(EXIT_RADIUS))

\* radius TILE_SIZE * 1.5
checkNearTerminal(playerPos, map) ==
  nearTileOfType(playerPos, map, {"TERMINAL"}, (3 * Px(TILE_SIZE)) \div 2)

checkNearTreasureDoor(playerPos, map) ==
  nearTileOfType(playerPos, map, {"TREASURE_DOOR"}, (3 * Px(TILE_SIZE)) \div 2)

ITEM_SELL_PRICES(itemType) ==
  IF itemType = "COIN" THEN 5
  ELSE IF itemType = "POTION" THEN 15
  ELSE IF itemType = "STAMINA_POTION" THEN 12
  ELSE IF itemType = "RARE_ITEM" THEN 50
  ELSE 0

RESOURCE_SELL_PRICES == [coins |-> 2, healthPotions |-> 8, staminaPotions |-> 6]

NoDirection == "null"

\* speed * deltaTime for a speed in pixels per second and a time in milliseconds.
moveDistance(speed, deltaTime) == (speed * deltaTime) \div 10

\* A run request that is granted whatever the stamina.
runGrantedAlways(keyboardState, stats) == keyboardState.movementType = "RUN"

\* A run request is granted while stamina is left.
runGranted(keyboardState, stats) ==
  keyboardState.movementType = "RUN" /\ stats.stamina > 0

\* The speed and the movement type of a frame with a direction input.
speedOf(keyboardState, stats) ==
  IF runGranted(keyboardState, stats) THEN RUN_SPEED ELSE WALK_SPEED

finalMovementType(keyboardState, stats) ==
  IF keyboardState.movementType = "RUN" /\ ~runGranted(keyboardState, stats) THEN "WALK"
  ELSE keyboardState.movementType

\* The player moved to (x, y) with velocity (vx, vy).
movedTo(player, keyboardState, x, y, vx, vy) ==
  [player EXCEPT !.position = [x |-> x, y |-> y],
                 !.angle = directionToAngle(keyboardState.direction),
                 !.direction = keyboardState.direction,
                 !.movementType = finalMovementType(keyboardState, player.stats),
                 !.isMoving = TRUE,
                 !.velocity = [x |-> vx, y |-> vy]]

\* The collision branches of the movement by (moveX, moveY): the full move,
\* the move along X, the move along Y, the turn on the spot.
slideMove(player, map, keyboardState, moveX, moveY) ==
  IF ~checkMapCollision(player.position.x + moveX, player.position.y + moveY, map)
  THEN movedTo(player, keyboardState, player.position.x + moveX, player.position.y + moveY,
               moveX, moveY)
  ELSE IF ~checkMapCollision(player.position.x + moveX, player.position.y, map)
  THEN movedTo(player, keyboardState, player.position.x + moveX, player.position.y, moveX, 0)
  ELSE IF ~checkMapCollision(player.position.x, player.position.y + moveY, map)
  THEN movedTo(player, keyboardState, player.position.x, player.position.y + moveY, 0, moveY)
  ELSE IF player.angle # directionToAngle(keyboardState.direction)
  THEN [player EXCEPT !.angle = directionToAngle(keyboardState.direction),
                      !.direction = keyboardState.direction,
                      !.isMoving = FALSE, !.velocity = [x |-> 0, y |-> 0]]
  ELSE player

\* The movement part of updateGame: the player afterwards.
movePlayer(currentState, keyboardState, deltaTime) ==
  IF keyboardState.direction # NoDirection
  THEN slideMove(currentState.player, currentState.map, keyboardState,
                 DirectionVector(keyboardState.direction).x
                   * moveDistance(speedOf(keyboardState, currentState.player.stats), deltaTime),
                 DirectionVector(keyboardState.direction).y
                   * moveDistance(speedOf(keyboardState, currentState.player.stats), deltaTime))
  ELSE IF currentState.player.isMoving \/ currentState.player.movementType # "IDLE"
  THEN [currentState.player EXCEPT !.isMoving = FALSE, !.movementType = "IDLE",
                                   !.velocity = [x |-> 0, y |-> 0]]
  ELSE currentState.player

\* A stamina update without the clamps at 0 and maxStamina.
updateStaminaUnclamped(player, deltaTime) ==
  IF player.movementType = "RUN" /\ player.isMoving
  THEN [player.stats EXCEPT !.stamina = @ - STAMINA_DRAIN_RATE * deltaTime]
  ELSE [player.stats EXCEPT !.stamina = @ + STAMINA_RECOVERY_RATE * deltaTime]

\* The stamina part of updateGame: the stats afterwards.
updateStamina(player, deltaTime) ==
  IF player.movementType = "RUN" /\ player.isMoving
  THEN [player.stats EXCEPT
          !.stamina = Max(0, player.stats.stamina - STAMINA_DRAIN_RATE * deltaTime)]
  ELSE IF player.stats.stamina < player.stats.maxStamina
  THEN [player.stats EXCEPT
          !.stamina = Min(player.stats.maxStamina,
                          player.stats.stamina + STAMINA_RECOVERY_RATE * deltaTime)]
  ELSE player.stats

NoPickup ==
  [index |-> 0, type |-> "none", success |-> FALSE, experienceGained |-> 0,
   addedToInventory |-> FALSE]

\* What a frame reports of the collectItem call on the item at index.
pickupOf(newState, index, result) ==
  [index |-> index, type |-> newState.items[index].type, success |-> result.success,
   experienceGained |-> result.experienceGained,
   addedToInventory |-> result.addedToInventory]

\* The items with the collected one marked.
markCollected(newState, result) ==
  [newState EXCEPT
     !.items = [i \in 1 .. Len(newState.items) |->
                  IF newState.items[i].id = result.item.id
                  THEN [newState.items[i] EXCEPT !.collected = TRUE]
                  ELSE newState.items[i]]]

\* The experience of the collected item added to the stats.
grantExperience(marked, result) ==
  IF result.experienceGained > 0
  THEN [marked EXCEPT !.player.stats = addExperience(@, result.experienceGained).newStats]
  ELSE marked

\* The health and stamina a potion restores, the resource counters and the
\* inventory of the collector.
applyCollected(granted, result) ==
  [granted EXCEPT
     !.player.stats.health =
        IF result.healthRestored # 0
        THEN Min(@ + result.healthRestored, granted.player.stats.maxHealth) ELSE @,
     !.player.stats.stamina =
        IF result.staminaRestored # 0
        THEN Min(@ + result.staminaRestored, granted.player.stats.maxStamina) ELSE @,
     !.coins = IF result.item.type = "COIN" THEN @ + 1 ELSE @,
     !.collectedResources.coins = IF result.item.type = "COIN" THEN @ + 1 ELSE @,
     !.collectedResources.healthPotions = IF result.item.type = "POTION" THEN @ + 1 ELSE @,
     !.collectedResources.staminaPotions =
        IF result.item.type = "STAMINA_POTION" THEN @ + 1 ELSE @,
     !.inventory = IF result.addedToInventory THEN result.inventory ELSE @]

\* The state after a successful collection; on a level-up the state is
\* force-saved as it is right after the experience is added.
afterGrant(marked, granted, pickup, result) ==
  [state |-> applyCollected(granted, result),
   forced |-> IF granted.player.stats.level > marked.player.stats.level
              THEN granted ELSE Null,
   pickup |-> pickup]

afterMark(marked, pickup, result) ==
  afterGrant(marked, grantExperience(marked, result), pickup, result)

afterCollect(newState, index, result) ==
  IF result.success
  THEN afterMark(markCollected(newState, result), pickupOf(newState, index, result), result)
  ELSE [state |-> newState, forced |-> Null, pickup |-> pickupOf(newState, index, result)]

pickupAt(newState, index) ==
  IF index = 0 THEN [state |-> newState, forced |-> Null, pickup |-> NoPickup]
  ELSE afterCollect(newState, index, collectItem(newState.inventory, newState.items[index]))

\* The pickup part of updateGame on the state after movement, doors and
\* stamina: the state afterwards, the state of the forced save of a level-up
\* (Null without one) and the result of collectItem.
pickupItems(newState) ==
  pickupAt(newState, checkItemPickup(newState.player.position, newState.items))

\* The door part of updateGame with the moved player.
withDoors(currentState, movedPlayer, doors) ==
  [currentState EXCEPT
     !.player = movedPlayer,
     !.map.tiles = IF doors.doorOpened THEN doors.updatedTiles ELSE @]

afterDoors(currentState, movedPlayer) ==
  withDoors(currentState, movedPlayer,
            checkAndOpenDoors(movedPlayer.position.x, movedPlayer.position.y,
                              currentState.map))

afterStamina(state, deltaTime) ==
  [state EXCEPT !.player.stats = updateStamina(state.player, deltaTime)]

\* The UI flags part of updateGame.
withFlags(picked, uiState) ==
  [state |-> picked.state,
   forced |-> picked.forced,
   pickup |-> picked.pickup,
   ui |-> [uiState EXCEPT
             !.isOnExit = checkOnExit(picked.state.player.position, picked.state.map),
             !.isNearTerminal =
                checkNearTerminal(picked.state.player.position, picked.state.map),
             !.isNearTreasureDoor =
                checkNearTreasureDoor(picked.state.player.position, picked.state.map)]]

\* updateGame on a started, running game: the engine state, the forced save
\* and the UI flags afterwards.
updateGame(currentState, keyboardState, uiState, deltaTime) ==
  withFlags(pickupItems(afterStamina(afterDoors(currentState,
                                                movePlayer(currentState, keyboardState,
                                                           deltaTime)),
                                     deltaTime)),
            uiState)

(***************************************************************************)
(* Random draws explored by the model                                      *)
(***************************************************************************)
\* Rooms offered to the attempts of generateRooms (each is used only on the
\* floors where it lies in the ranges of the draws).
RoomPicks ==
  { [x |-> 2, y |-> 2, w |-> 5, h |-> 5],
    [x |-> 9, y |-> 9, w |-> 6, h |-> 6],
    [x |-> 16, y |-> 16, w |-> 6, h |-> 6],
    [x |-> 16, y |-> 2, w |-> 6, h |-> 5],
    [x |-> 2, y |-> 16, w |-> 5, h |-> 6],
    [x |-> 20, y |-> 20, w |-> 5, h |-> 5],
    [x |-> 5, y |-> 5, w |-> 6, h |-> 6] }

\* Vault origins offered to addTreasureRoom, and NoVault for 200 failed attempts.
TreasurePicks ==
  { NoVault, [x |-> 11, y |-> 11], [x |-> 3, y |-> 18], [x |-> 22, y |-> 10] }

\* Offsets offered to the obstacle draws.
ObstacleOffsets == { <<1, 1>>, <<1, 2>>, <<4, 4>> }

\* Index pairs offered to the extra connections of connectRooms.
ExtraPairs(g) ==
  {<<0, b>> : b \in 0 .. Len(g.rooms) - 1} \cup {<<Len(g.rooms) - 1, 1>>}

(***************************************************************************)
(* State                                                                   *)
(***************************************************************************)
VARIABLES
  gen,      \* the MapGenerator object of the generation in progress
  genpc,    \* the step of generateMap that runs next
  gs,       \* the GameState held by the engine
  kb,       \* keyboardStateRef: the movement input
  ui,       \* uiState: the flags shown by the interface
  panel,    \* the inventory copy held by the inventory panel (useInventory),
            \* mounted while the doors of the page are open
  hasSavedGame, \* useGameState: a started game was loaded at mount
  profile,  \* the stored user profile
  store,    \* the storage blob of the saved game
  now,      \* Date.now()
  last,     \* the last operation, its inputs and what it returned
  frames,   \* updateGame calls so far
  ops,      \* other handler calls so far
  tabs,     \* per browser tab: the refs and the savedState of useGameState and
            \* the game state the tab holds in memory
  loop      \* the refs of useGameLoop and the animation frame it has requested

genVars == <<gen, genpc>>
gameVars ==
  <<gs, kb, ui, panel, hasSavedGame, profile, store, now, last, frames, ops, tabs, loop>>
vars ==
  <<gen, genpc, gs, kb, ui, panel, hasSavedGame, profile, store, now, last, frames, ops, tabs,
    loop>>

NoInput == [direction |-> NoDirection, movementType |-> "IDLE"]
NoPanel == <<>>
NoTabs == <<>>
NoLoop == <<>>
NoUi ==
  [isGameStarted |-> FALSE, isPaused |-> FALSE, isOnExit |-> FALSE,
   isNearTerminal |-> FALSE, isNearTreasureDoor |-> FALSE]

\* The variables of the game and of the storage while only a map is generated.
GameIdle ==
  /\ gs = Null /\ kb = NoInput /\ ui = NoUi /\ panel = NoPanel /\ profile = Null
  /\ hasSavedGame = FALSE
  /\ store = NoRecord /\ now = 0 /\ last = [op |-> "none"] /\ frames = 0 /\ ops = 0
  /\ tabs = NoTabs
  /\ loop = NoLoop

\* The variables of the generator and of the game loop while a game runs.
GenIdle == gen = Null /\ genpc = "idle" /\ loop = NoLoop

(***************************************************************************)
(* Map generation, step by step (MapGenerator.generateMap)                 *)
(***************************************************************************)
InitGen ==
  /\ \E level \in 1 .. MaxMapLevel : gen = NewGenerator(level)
  /\ genpc = "generateRooms"
  /\ GameIdle

\* One attempt of the room loop that places a room.
AttemptRoom ==
  /\ genpc = "generateRooms"
  /\ \E p \in RoomPicks :
       /\ RoomPickValid(gen, p)
       /\ attemptRoom(gen, p) # gen
       /\ gen' = attemptRoom(gen, p)
  /\ UNCHANGED genpc
  /\ UNCHANGED gameVars

\* The rest of the attempts place nothing; the fallback pair is added.
FinishRooms ==
  /\ genpc = "generateRooms"
  /\ Len(gen.rooms) >= 1
  /\ gen' = fallbackRooms(gen)
  /\ genpc' = "addShopRoom"
  /\ UNCHANGED gameVars

AddShopRoom ==
  /\ genpc = "addShopRoom"
  /\ \E shopIndex \in ShopIndices(gen) : gen' = addShopRoom(gen, shopIndex)
  /\ genpc' = "addTreasureRoom"
  /\ UNCHANGED gameVars

AddTreasureRoom ==
  /\ genpc = "addTreasureRoom"
  /\ \E p \in TreasurePicks :
       /\ p # NoVault => TreasurePickValid(gen, p)
       /\ gen' = addTreasureRoom(gen, p)
  /\ genpc' = "connectRooms"
  /\ UNCHANGED gameVars

ConnectRooms ==
  /\ genpc = "connectRooms"
  /\ \E pair \in ExtraPairs(gen) :
       gen' = connectRooms(gen, [i \in 1 .. extraConnections(gen) |-> pair])
  /\ genpc' = "addExit"
  /\ UNCHANGED gameVars

AddExit ==
  /\ genpc = "addExit"
  /\ gen' = addExit(gen)
  /\ genpc' = "addObstacles"
  /\ UNCHANGED gameVars

AddObstacles ==
  /\ genpc = "addObstacles"
  /\ \E o \in ObstacleOffsets : gen' = addObstacles(gen, o)
  /\ genpc' = "placeDoors"
  /\ UNCHANGED gameVars

PlaceDoors ==
  /\ genpc = "placeDoors"
  /\ gen' = placeDoors(gen)
  /\ genpc' = "addTerminal"
  /\ UNCHANGED gameVars

AddTerminal ==
  /\ genpc = "addTerminal"
  /\ gen' = addTerminal(gen)
  /\ genpc' = "done"
  /\ UNCHANGED gameVars

NextGen ==
  \/ AttemptRoom \/ FinishRooms \/ AddShopRoom \/ AddTreasureRoom \/ ConnectRooms
  \/ AddExit \/ AddObstacles \/ PlaceDoors \/ AddTerminal

SpecGen == InitGen /\ [][NextGen]_vars

(***************************************************************************)
(* Reachability on a finished floor                                        *)
(***************************************************************************)
\* Cell types a walk may cross: doors open on approach, a vault door does not.
WalkTypes ==
  {"FLOOR", "FLOOR_LIGHT", "DOOR", "DOOR_OPEN", "DOOR_WIDE", "DOOR_WIDE_OPEN",
   "EXIT", "TERMINAL", "TREASURE_DOOR_OPEN"}

Neighbours(c) == {<<c[1] + 1, c[2]>>, <<c[1] - 1, c[2]>>, <<c[1], c[2] + 1>>, <<c[1], c[2] - 1>>}

RECURSIVE Flood(_, _, _, _)
Flood(tiles, types, frontier, seen) ==
  IF frontier = {} THEN seen
  ELSE LET next == {n \in UNION {Neighbours(c) : c \in frontier} :
                      n \notin seen /\ TileAt(tiles, n[1], n[2]) \in types}
       IN Flood(tiles, types, next, seen \cup next)

\* Cells a breadth-first search from the cell reaches through the types.
ReachableFrom(tiles, types, c) == Flood(tiles, types, {c}, {c})

SpawnCell(map) ==
  LET p == findSafeSpawnPosition(map) IN <<TileOf(p.x), TileOf(p.y)>>

ExitReachable(map) ==
  \E c \in ReachableFrom(map.tiles, WalkTypes, SpawnCell(map)) : map.tiles[c] = "EXIT"

CountType(map, type) == Cardinality({c \in DOMAIN map.tiles : map.tiles[c] = type})

(***************************************************************************)
(* Properties of generated floors                                          *)
(***************************************************************************)
GenDone == genpc = "done"

\* C1: on every finished floor a breadth-first search from the spawn cell of
\* findSafeSpawnPosition, stepping in the four orthogonal directions through
\* FLOOR, FLOOR_LIGHT, DOOR, DOOR_WIDE, EXIT and TERMINAL cells only (never
\* WALL, OBSTACLE or a locked TREASURE_DOOR), reaches the EXIT cell.
C1_ExitReachableFromSpawn == GenDone => ExitReachable(GameMapOf(gen))

\* C2: once addExit has run, the grid holds exactly one EXIT cell through
\* every later step of generateMap, and the finished floor holds at least
\* one FLOOR cell.
C2_OneExitSomeFloor ==
  /\ genpc \in {"addObstacles", "placeDoors", "addTerminal", "done"}
       => CountType(GameMapOf(gen), "EXIT") = 1
  /\ GenDone => CountType(GameMapOf(gen), "FLOOR") >= 1

\* C2 witness: a finished floor with a vault behind vault doors, a
\* terminal, an obstacle and doors, still holding its exit.
C2_Witness ==
  /\ GenDone
  /\ CountType(GameMapOf(gen), "EXIT") = 1
  /\ CountType(GameMapOf(gen), "TREASURE_DOOR") >= 1
  /\ CountType(GameMapOf(gen), "TERMINAL") = 1
  /\ CountType(GameMapOf(gen), "OBSTACLE") >= 1
  /\ CountType(GameMapOf(gen), "DOOR") + CountType(GameMapOf(gen), "DOOR_WIDE") >= 1

\* The vault rooms of the generator.
Vaults(g) == {i \in 1 .. Len(g.rooms) : g.rooms[i].roomType = "treasure"}

\* The cells one orthogonal step outside the rectangle of the room.
NextToRoom(room) ==
  {c \in (room.x - 1 .. room.x + room.width) \X (room.y - 1 .. room.y + room.height) :
     /\ ~(c[1] \in room.x .. room.x + room.width - 1
            /\ c[2] \in room.y .. room.y + room.height - 1)
     /\ (c[1] \in room.x .. room.x + room.width - 1
            \/ c[2] \in room.y .. room.y + room.height - 1)}

\* C12: on a finished floor with a vault every cell orthogonally adjacent to
\* a border of the vault room is WALL or TREASURE_DOOR, and a search from
\* the spawn cell that does not cross TREASURE_DOOR reaches no FLOOR_LIGHT
\* cell.
C12_VaultSealed ==
  (GenDone /\ Vaults(gen) # {})
    => /\ \A i \in Vaults(gen) : \A c \in NextToRoom(gen.rooms[i]) :
            TileAt(gen.tiles, c[1], c[2]) \in {"WALL", "TREASURE_DOOR"}
       /\ \A c \in ReachableFrom(gen.tiles, WalkTypes, SpawnCell(GameMapOf(gen))) :
            gen.tiles[c] # "FLOOR_LIGHT"

\* A finished floor whose vault was connected by a corridor: a vault door
\* stands next to it and lit floor lies behind.
C12_Witness ==
  /\ GenDone
  /\ \E i \in Vaults(gen) : \E c \in NextToRoom(gen.rooms[i]) :
       TileAt(gen.tiles, c[1], c[2]) = "TREASURE_DOOR"
  /\ CountType(GameMapOf(gen), "FLOOR_LIGHT") >= 1

\* The grid at the end of upgradeToWideDoors, seen from the state in which
\* placeDoors runs next.
Widened == upgradeToWideDoors(markDoors(gen)).tiles

DoorTypes == {"DOOR", "DOOR_WIDE"}

\* The cell has a door cell next to it in its row or in its column.
InDoorRun(tiles, c) == \E n \in Neighbours(c) : TileAt(tiles, n[1], n[2]) \in DoorTypes

\* C22: at the end of upgradeToWideDoors every door cell that has a door
\* cell next to it in its row or column is DOOR_WIDE, so every run of two
\* or more door cells is uniformly wide, and every door cell without such a
\* neighbour is a narrow DOOR.
C22_WideRuns ==
  genpc = "placeDoors"
    => \A tiles \in {Widened} : \A c \in DOMAIN tiles :
         tiles[c] \in DoorTypes
           => tiles[c] = (IF InDoorRun(tiles, c) THEN "DOOR_WIDE" ELSE "DOOR")

\* A floor on which the pass made a wide run along a row and one along a
\* column and left a single door narrow.
C22_Witness ==
  /\ genpc = "placeDoors"
  /\ \E tiles \in {Widened} :
       /\ \E c \in DOMAIN tiles :
            tiles[c] = "DOOR_WIDE" /\ TileAt(tiles, c[1] + 1, c[2]) = "DOOR_WIDE"
       /\ \E c \in DOMAIN tiles :
            tiles[c] = "DOOR_WIDE" /\ TileAt(tiles, c[1], c[2] + 1) = "DOOR_WIDE"
       /\ \E c \in DOMAIN tiles : tiles[c] = "DOOR"

\* The shop rooms of the generator.
Shops(g) == {i \in 1 .. Len(g.rooms) : g.rooms[i].roomType = "shop"}

\* The step of generateMap that runs addTerminal.
TerminalStep == genpc = "addTerminal" /\ genpc' = "done"

\* Every cell that addTerminal turned into TERMINAL was FLOOR before.
TerminalReplacesFloor ==
  [][TerminalStep
       => \A c \in DOMAIN gen.tiles :
            (gen'.tiles[c] = "TERMINAL" /\ gen.tiles[c] # "TERMINAL")
              => gen.tiles[c] = "FLOOR"]_vars

\* C23: the floor that addTerminal finishes holds exactly one TERMINAL cell,
\* it lies at the centre of the shop room, and the cell was FLOOR before
\* addTerminal.
C23_OneTerminalOnFloor ==
  [][TerminalStep
       => /\ CountType(GameMapOf(gen'), "TERMINAL") = 1
          /\ \A c \in DOMAIN gen.tiles :
               gen'.tiles[c] = "TERMINAL"
                 => /\ \E i \in Shops(gen) :
                         c = <<gen.rooms[i].centerX, gen.rooms[i].centerY>>
                    /\ gen.tiles[c] = "FLOOR"]_vars

\* A finished floor of two rooms: no room is the shop and no cell is TERMINAL.
C23_NoTerminal ==
  /\ GenDone
  /\ Shops(gen) = {}
  /\ CountType(GameMapOf(gen), "TERMINAL") = 0

(***************************************************************************)
(* Floors, saved games and profiles explored by the model                  *)
(***************************************************************************)
MaxSteps == 2
StartClock == 5000

\* Level 1, spawn in the bend of a corridor between two wide doors; a coin
\* on the spawn cell.
FloorBend ==
  FloorOf(1,
            [rooms |-> << [x |-> 16, y |-> 2, w |-> 6, h |-> 5],
                          [x |-> 2, y |-> 16, w |-> 5, h |-> 6],
                          [x |-> 16, y |-> 16, w |-> 6, h |-> 6] >>,
             shopIndex |-> 1, treasure |-> NoVault, extra |-> << <<0, 0>> >>,
             obstacle |-> <<1, 1>>],
            [coins |-> << <<0, 0>> >>, potions |-> <<>>, staminaPotions |-> <<>>,
             rareItems |-> <<>>])

\* Level 1, spawn in the corner of a room next to an obstacle; an artifact on
\* the spawn cell, a potion and a stamina potion on the cells beside it.
FloorRoom ==
  FloorOf(1,
            [rooms |-> << [x |-> 2, y |-> 2, w |-> 6, h |-> 6],
                          [x |-> 16, y |-> 2, w |-> 6, h |-> 5],
                          [x |-> 16, y |-> 16, w |-> 6, h |-> 6] >>,
             shopIndex |-> 1, treasure |-> NoVault, extra |-> << <<0, 0>> >>,
             obstacle |-> <<1, 1>>],
            [coins |-> <<>>, potions |-> << <<1, 0>> >>,
             staminaPotions |-> << <<0, 1>> >>, rareItems |-> << <<0, 0>> >>])

\* Level 2, two rooms and a vault on the corridor between them.
FloorVault ==
  FloorOf(2,
            [rooms |-> << [x |-> 2, y |-> 2, w |-> 5, h |-> 5],
                          [x |-> 20, y |-> 20, w |-> 5, h |-> 5] >>,
             shopIndex |-> 1, treasure |-> [x |-> 11, y |-> 11],
             extra |-> << <<0, 0>> >>, obstacle |-> <<1, 1>>],
            [coins |-> << <<0, 0>> >>, potions |-> <<>>, staminaPotions |-> <<>>,
             rareItems |-> <<>>])

Floors(mapLevel) == IF mapLevel = 1 THEN {FloorBend, FloorRoom} ELSE {FloorVault}

\* Inventory slots holding count artifacts collected on earlier floors.
Artifacts(count) ==
  [i \in 1 .. INVENTORY_SIZE |->
     [index |-> i - 1,
      item |-> IF i <= count
               THEN [id |-> <<"rare", 0, i - 1>>, type |-> "RARE_ITEM",
                     position |-> [x |-> 0, y |-> 0], collected |-> TRUE]
               ELSE NoItem]]

\* Games saved at the start of a floor: "veteran" is hurt, out of breath and
\* one artifact short of a full inventory; "packed" is badly hurt with a full
\* inventory; "hoarder" has sold nothing yet; "summit" is on the last floor;
\* any other kind is a game just started.

SavedGame(kind, floor) ==
  LET fresh == [createInitialState(1, floor, 0) EXCEPT !.isGameStarted = TRUE]
      carrying(count) ==
        [fresh EXCEPT
           !.inventory = Artifacts(count),
           !.player.stats.experience = count * RARE_ITEM_XP_VALUE,
           !.player.stats.level = calculateLevel(count * RARE_ITEM_XP_VALUE),
           !.player.stats.experienceToNextLevel =
              calculateExperienceToNextLevel(calculateLevel(count * RARE_ITEM_XP_VALUE))]
  IN IF kind = "veteran"
     THEN [carrying(INVENTORY_SIZE - 1) EXCEPT
             !.player.stats.health = 90, !.player.stats.stamina = 1200]
     ELSE IF kind = "packed"
          THEN [carrying(INVENTORY_SIZE) EXCEPT !.player.stats.health = 70]
     ELSE IF kind = "hoarder"
          THEN [fresh EXCEPT !.collectedResources.healthPotions = 625]
     ELSE IF kind = "summit" THEN [fresh EXCEPT !.mapLevel = MAX_LEVEL]
     ELSE fresh

\* The corridor cell north of a vault door of the floor.
CellAtVaultDoor(map) ==
  CHOOSE c \in DOMAIN map.tiles :
    /\ map.tiles[c] \in {"FLOOR", "DOOR", "DOOR_WIDE"}
    /\ TileAt(map.tiles, c[1], c[2] + 1) = "TREASURE_DOOR"

\* A game saved on floor 2 by a player who walked from the spawn room to the
\* vault door: the doors passed on the way are open.
GameAtVaultDoor(floor) ==
  LET arrived == createNextLevelState(SavedGame("none", FloorRoom), floor, 0)
      cell == CellAtVaultDoor(floor.map)
  IN [arrived EXCEPT
        !.player.position = CellPosition(cell),
        !.map.tiles = [c \in DOMAIN floor.map.tiles |->
                         IF c[2] <= cell[2] /\ floor.map.tiles[c] = "DOOR" THEN "DOOR_OPEN"
                         ELSE IF c[2] <= cell[2] /\ floor.map.tiles[c] = "DOOR_WIDE"
                              THEN "DOOR_WIDE_OPEN"
                         ELSE floor.map.tiles[c]]]

Explorer == [selectedCharacterClass |-> "EXPLORER", staminaUpgrades |-> 1]

\* The floor of the first state, the game found in the storage and the
\* profile of the sessions explored.
Sessions ==
  { [floor |-> FloorBend, kind |-> "none", userProfile |-> Explorer],
    [floor |-> FloorRoom, kind |-> "none", userProfile |-> Null],
    [floor |-> FloorRoom, kind |-> "veteran", userProfile |-> Null],
    [floor |-> FloorRoom, kind |-> "packed", userProfile |-> Null],
    [floor |-> FloorRoom, kind |-> "hoarder", userProfile |-> Explorer],
    [floor |-> FloorVault, kind |-> "sentinel", userProfile |-> Null],
    [floor |-> FloorBend, kind |-> "summit", userProfile |-> Null] }

\* The storage a session starts with.
FoundInStorage(session) ==
  IF session.kind = "none" THEN NoRecord
  ELSE IF session.kind = "sentinel" THEN saveGameState(GameAtVaultDoor(session.floor), 0)
  ELSE saveGameState(SavedGame(session.kind, session.floor), 0)

\* Slots offered to the sales and removals.
SlotChoices == {0, INVENTORY_SIZE - 1}

\* Slots asked of sellItem: an occupied or empty one, and one past the end.
SellChoices == SlotChoices \cup {INVENTORY_SIZE}

\* Time between two frames in milliseconds; the game loop replaces a
\* deltaTime above 0.1 s by 0.016 s.
Elapsed == {100, 250}
frameDeltaTime(elapsed) == IF elapsed > 100 THEN 16 ELSE elapsed

Directions == {"UP", "DOWN", "LEFT", "RIGHT"}

(***************************************************************************)
(* The game, handler by handler                                            *)
(***************************************************************************)
Snapshot(state) ==
  [stats |-> state.player.stats, position |-> state.player.position,
   inventory |-> state.inventory, coins |-> state.coins,
   collectedResources |-> state.collectedResources]

Done(op, state, deltaTime, input, pickup, returned) ==
  [op |-> op, before |-> Snapshot(state), dt |-> deltaTime, input |-> input,
   pickup |-> pickup, returned |-> returned]

UiStarted == [NoUi EXCEPT !.isGameStarted = TRUE]

\* The engine initialisation effect over the game loaded at mount.
Init ==
  /\ GenIdle
  /\ \E session \in Sessions :
       \E loaded \in {loadGameState(FoundInStorage(session))} :
         \E engine \in {PixelArtGameEngine(loaded.result, session.floor, StartClock)} :
           /\ gs = [engine EXCEPT !.player.stats = applyProfile(@, session.userProfile)]
           /\ ui = [NoUi EXCEPT !.isGameStarted = engine.isGameStarted,
                                !.isPaused = engine.isPaused]
           /\ store = loaded.storage
           /\ hasSavedGame = (loaded.result # Null /\ loaded.result.isGameStarted)
           /\ profile = session.userProfile
  /\ kb = NoInput
  /\ panel = NoPanel
  /\ now = StartClock
  /\ last = [op |-> "init"]
  /\ frames = 0
  /\ ops = 0
  /\ tabs = NoTabs

\* useKeyboard is enabled while the doors are open and the game runs; inputs
\* are followed while a frame can still read them.
HandleMove ==
  /\ panel # NoPanel
  /\ ui.isGameStarted /\ ~ui.isPaused
  /\ frames + ops < MaxSteps
  /\ \E direction \in Directions, movementType \in {"WALK", "RUN"} :
       kb' = [direction |-> direction, movementType |-> movementType]
  /\ UNCHANGED <<genVars, loop, tabs, gs, ui, panel, hasSavedGame, profile, store, now, last, frames, ops>>

HandleStop ==
  /\ panel # NoPanel
  /\ ui.isGameStarted /\ ~ui.isPaused
  /\ frames + ops < MaxSteps
  /\ kb' = NoInput
  /\ UNCHANGED <<genVars, loop, tabs, gs, ui, panel, hasSavedGame, profile, store, now, last, frames, ops>>

\* One frame of the game loop, which runs while the doors are open.
UpdateGame ==
  /\ panel # NoPanel
  /\ gs.isGameStarted /\ ~gs.isPaused
  /\ frames + ops < MaxSteps
  /\ \E elapsed \in Elapsed :
       \E frame \in {updateGame(gs, kb, ui, frameDeltaTime(elapsed))} :
         /\ gs' = frame.state
         /\ ui' = frame.ui
         /\ store' = IF frame.forced # Null THEN saveGameState(frame.forced, now)
                     ELSE store
         /\ last' = Done("updateGame", gs, frameDeltaTime(elapsed), kb, frame.pickup, 0)
  /\ frames' = frames + 1
  /\ UNCHANGED <<genVars, loop, tabs, kb, panel, hasSavedGame, profile, now, ops>>

\* An operation other than a frame or an input, within the bound.
Operation(op, returned) ==
  /\ frames + ops < MaxSteps
  /\ ops' = ops + 1
  /\ last' = Done(op, gs, 0, NoInput, NoPickup, returned)

\* An operation that its own guard lets happen once.
Once(op) ==
  /\ last' = Done(op, gs, 0, NoInput, NoPickup, 0)
  /\ UNCHANGED ops

\* profile?.staminaUpgrades ?? 0, times 10
staminaBonusOf(userProfile) ==
  IF userProfile = Null THEN 0 ELSE Pt(userProfile.staminaUpgrades * 10)

\* handleDoorsOpen of the page with a game to continue: the doors open, the
\* inventory panel is mounted, and startGame() or resumeGame() runs.
HandleDoorsOpen ==
  /\ panel = NoPanel
  /\ ~(~hasSavedGame /\ ~gs.isGameStarted)
  /\ gs' = IF ~gs.isGameStarted THEN engineStartGame(gs, now)
           ELSE [gs EXCEPT !.isPaused = FALSE]
  /\ ui' = IF ~gs.isGameStarted THEN UiStarted ELSE [ui EXCEPT !.isPaused = FALSE]
  /\ panel' = gs.inventory
  /\ Once("handleDoorsOpen")
  /\ UNCHANGED <<genVars, loop, tabs, kb, hasSavedGame, profile, store, now, frames>>

\* handleCharacterCreated of the page: updateCharacterClass, then
\* startGame(stats) with the stats of the chosen class, then the doors open.
HandleCharacterCreated ==
  /\ panel = NoPanel
  /\ ~hasSavedGame /\ ~gs.isGameStarted
  /\ \E characterClass \in {"SURVIVOR", "EXPLORER", "COLLECTOR"} :
       /\ profile' = IF profile = Null THEN Null
                     ELSE [profile EXCEPT !.selectedCharacterClass = characterClass]
       /\ gs' = engineStartGame(
                  [gs EXCEPT !.player.stats =
                     [handleConfirm(characterClass) EXCEPT
                        !.maxStamina = @ + staminaBonusOf(profile),
                        !.stamina = @ + staminaBonusOf(profile)]], now)
  /\ ui' = UiStarted
  /\ panel' = gs.inventory
  /\ Once("startGame")
  /\ UNCHANGED <<genVars, loop, tabs, kb, hasSavedGame, store, now, frames>>

\* handleDoorsClose of the page: the panel is unmounted and pauseGame() runs.
HandleDoorsClose ==
  /\ panel # NoPanel
  /\ gs' = [gs EXCEPT !.isPaused = TRUE]
  /\ ui' = [ui EXCEPT !.isPaused = TRUE]
  /\ panel' = NoPanel
  /\ Operation("handleDoorsClose", 0)
  /\ UNCHANGED <<genVars, loop, tabs, kb, hasSavedGame, profile, store, now, frames>>

\* A reset that generates a new first floor and keeps the progress made.
ResetGameKeepingProgress ==
  /\ \E floor \in Floors(1) :
       gs' = [createInitialState(1, floor, now) EXCEPT
                !.inventory = gs.inventory,
                !.coins = gs.coins,
                !.collectedResources = gs.collectedResources,
                !.player.stats = gs.player.stats]
  /\ ui' = NoUi
  /\ Operation("resetGame", 0)
  /\ UNCHANGED <<genVars, loop, tabs, kb, panel, hasSavedGame, profile, store, now, frames>>

ResetGame ==
  /\ \E floor \in Floors(1) : gs' = createInitialState(1, floor, now)
  /\ ui' = NoUi
  /\ Operation("resetGame", 0)
  /\ UNCHANGED <<genVars, loop, tabs, kb, panel, hasSavedGame, profile, store, now, frames>>

PauseGame ==
  /\ gs' = [gs EXCEPT !.isPaused = TRUE]
  /\ ui' = [ui EXCEPT !.isPaused = TRUE]
  /\ Operation("pauseGame", 0)
  /\ UNCHANGED <<genVars, loop, tabs, kb, panel, hasSavedGame, profile, store, now, frames>>

ResumeGame ==
  /\ gs' = [gs EXCEPT !.isPaused = FALSE]
  /\ ui' = [ui EXCEPT !.isPaused = FALSE]
  /\ Operation("resumeGame", 0)
  /\ UNCHANGED <<genVars, loop, tabs, kb, panel, hasSavedGame, profile, store, now, frames>>

RestartGame ==
  /\ \E floor \in Floors(1) :
       gs' = engineStartGame(
                [createInitialState(1, floor, now) EXCEPT
                   !.player.stats.maxStamina =
                      IF staminaBonusOf(profile) > 0
                      THEN Pt(MAX_STAMINA) + staminaBonusOf(profile) ELSE @,
                   !.player.stats.stamina =
                      IF staminaBonusOf(profile) > 0
                      THEN Pt(MAX_STAMINA) + staminaBonusOf(profile) ELSE @], now)
  /\ store' = storageRemove(store)
  /\ ui' = UiStarted
  /\ Operation("restartGame", 0)
  /\ UNCHANGED <<genVars, loop, tabs, kb, panel, hasSavedGame, profile, now, frames>>

\* useInventory.removeItem on the panel's copy, then updateInventory.
PanelRemoveItem ==
  /\ panel # NoPanel
  /\ \E slotIndex \in SlotChoices :
       /\ slotIndex < Len(panel)
       /\ panel[slotIndex + 1].item # NoItem
       /\ \E removed \in {removeItem(panel, slotIndex)} :
            /\ removed.ok
            /\ panel' = removed.slots
            /\ gs' = [gs EXCEPT !.inventory = removed.slots]
  /\ Operation("removeItem", 0)
  /\ UNCHANGED <<genVars, loop, tabs, kb, ui, hasSavedGame, profile, store, now, frames>>

\* goToNextLevel, which returns at once on the last floor; whether its
\* debounced save writes depends on the time since the last saves.
GoToNextLevel ==
  /\ ~(gs.mapLevel >= MaxMapLevel /\ gs.mapLevel < MAX_LEVEL)
  /\ \E floor \in Floors(gs.mapLevel + 1), written \in BOOLEAN :
       \E nextLevelState \in {createNextLevelState(gs, floor, now)} :
         /\ gs' = IF gs.mapLevel >= MAX_LEVEL THEN gs ELSE nextLevelState
         /\ store' = IF written /\ gs.mapLevel < MAX_LEVEL
                     THEN saveGameState(nextLevelState, now) ELSE store
  /\ ui' = IF gs.mapLevel >= MAX_LEVEL THEN ui ELSE [ui EXCEPT !.isOnExit = FALSE]
  /\ Operation("goToNextLevel", 0)
  /\ UNCHANGED <<genVars, loop, tabs, kb, panel, hasSavedGame, profile, now, frames>>

\* The experience sellResources grants for the resources.
resourcesValue(resources) ==
  resources.coins * RESOURCE_SELL_PRICES.coins
    + resources.healthPotions * RESOURCE_SELL_PRICES.healthPotions
    + resources.staminaPotions * RESOURCE_SELL_PRICES.staminaPotions

\* What a sale hands back: the state of the engine afterwards, the number
\* returned, and the state given to forceSaveGameState or null.
Sale(currentState, newState, xpGain, expResult) ==
  [state |-> newState, returned |-> xpGain,
   forced |-> IF expResult.levelIncreased
                   /\ expResult.newLevel > currentState.player.stats.level
              THEN newState ELSE Null]

NoSale(currentState) == [state |-> currentState, returned |-> 0, forced |-> Null]

\* The slot currentState.inventory[slotIndex] holds an item.
slotHasItem(currentState, slotIndex) ==
  IF slotIndex \in 0 .. Len(currentState.inventory) - 1
  THEN currentState.inventory[slotIndex + 1].item # NoItem
  ELSE FALSE

\* The part of sellItem after its early returns.
sellSlot(currentState, slotIndex, xpGain, expResult) ==
  Sale(currentState,
       [currentState EXCEPT !.inventory[slotIndex + 1].item = NoItem,
                            !.player.stats = expResult.newStats],
       xpGain, expResult)

\* A sale that pays and leaves the item in its slot.
sellItemKeepingIt(currentState, slotIndex) ==
  IF ~slotHasItem(currentState, slotIndex) THEN NoSale(currentState)
  ELSE Sale(currentState,
            [currentState EXCEPT
               !.player.stats =
                  addExperience(@, ITEM_SELL_PRICES(
                     currentState.inventory[slotIndex + 1].item.type)).newStats],
            ITEM_SELL_PRICES(currentState.inventory[slotIndex + 1].item.type),
            addExperience(currentState.player.stats,
                          ITEM_SELL_PRICES(currentState.inventory[slotIndex + 1].item.type)))

sellItem(currentState, slotIndex) ==
  IF ~slotHasItem(currentState, slotIndex) THEN NoSale(currentState)
  ELSE sellSlot(currentState, slotIndex,
                ITEM_SELL_PRICES(currentState.inventory[slotIndex + 1].item.type),
                addExperience(currentState.player.stats,
                              ITEM_SELL_PRICES(currentState.inventory[slotIndex + 1].item.type)))

\* The part of sellResources after its early return.
sellAll(currentState, xpGain, expResult) ==
  Sale(currentState,
       [currentState EXCEPT
          !.collectedResources = [coins |-> 0, healthPotions |-> 0, staminaPotions |-> 0],
          !.player.stats = expResult.newStats],
       xpGain, expResult)

\* A sale of the resources that pays and keeps the counters.
sellResourcesKeepingThem(currentState) ==
  Sale(currentState,
       [currentState EXCEPT
          !.player.stats =
             addExperience(@, resourcesValue(currentState.collectedResources)).newStats],
       resourcesValue(currentState.collectedResources),
       addExperience(currentState.player.stats,
                     resourcesValue(currentState.collectedResources)))

sellResources(currentState) ==
  IF currentState.collectedResources
       = [coins |-> 0, healthPotions |-> 0, staminaPotions |-> 0]
  THEN NoSale(currentState)
  ELSE sellAll(currentState, resourcesValue(currentState.collectedResources),
               addExperience(currentState.player.stats,
                             resourcesValue(currentState.collectedResources)))

SellItem ==
  /\ \E slotIndex \in SellChoices :
       \E sale \in {sellItem(gs, slotIndex)} :
         /\ gs' = sale.state
         /\ store' = IF sale.forced # Null THEN saveGameState(sale.forced, now) ELSE store
         /\ frames + ops < MaxSteps
         /\ ops' = ops + 1
         /\ last' = With(Done("sellItem", gs, 0, NoInput, NoPickup, sale.returned),
                         "slot", slotIndex)
  /\ UNCHANGED <<genVars, loop, tabs, kb, ui, panel, hasSavedGame, profile, now, frames>>

SellResources ==
  /\ \E sale \in {sellResources(gs)} :
       /\ gs' = sale.state
       /\ store' = IF sale.forced # Null THEN saveGameState(sale.forced, now) ELSE store
       /\ Operation("sellResources", sale.returned)
  /\ UNCHANGED <<genVars, loop, tabs, kb, ui, panel, hasSavedGame, profile, now, frames>>

UnlockTreasureRoom ==
  /\ gs' = With([gs EXCEPT
                   !.map.tiles = [c \in DOMAIN gs.map.tiles |->
                                    IF gs.map.tiles[c] = "TREASURE_DOOR"
                                    THEN "TREASURE_DOOR_OPEN" ELSE gs.map.tiles[c]]],
                "treasureRoomUnlocked", <<TRUE>>)
  /\ ui' = [ui EXCEPT !.isNearTreasureDoor = FALSE]
  /\ Operation("unlockTreasureRoom", 0)
  /\ UNCHANGED <<genVars, loop, tabs, kb, panel, hasSavedGame, profile, store, now, frames>>

Next ==
  \/ HandleMove \/ HandleStop \/ UpdateGame
  \/ HandleDoorsOpen \/ HandleCharacterCreated \/ HandleDoorsClose
  \/ ResetGame \/ PauseGame \/ ResumeGame
  \/ RestartGame \/ PanelRemoveItem \/ GoToNextLevel
  \/ SellItem \/ SellResources \/ UnlockTreasureRoom

Spec == Init /\ [][Next]_vars

(***************************************************************************)
(* A game closed and opened again                                          *)
(***************************************************************************)
MaxReloads == 2
MaxUpgrades == 2

\* The profiles of the players: a class chosen earlier, stamina upgrades bought.
ReloadProfiles ==
  { [selectedCharacterClass |-> "EXPLORER", staminaUpgrades |-> u] : u \in 0 .. MaxUpgrades }

\* The first visit: no saved game, the engine initialised with the profile.
InitReload ==
  /\ GenIdle
  /\ \E userProfile \in ReloadProfiles :
       \E engine \in {PixelArtGameEngine(Null, FloorBend, StartClock)} :
         /\ gs = [engine EXCEPT !.player.stats = applyProfile(@, userProfile)]
         /\ profile = userProfile
  /\ ui = NoUi
  /\ store = NoRecord
  /\ hasSavedGame = FALSE
  /\ kb = NoInput
  /\ panel = NoPanel
  /\ now = StartClock
  /\ last = [op |-> "init"]
  /\ frames = 0
  /\ ops = 0
  /\ tabs = NoTabs

\* The page is closed and opened again: handleBeforeUnload writes the state
\* of the engine, the mount effect loads it, and the engine initialisation
\* effect builds the engine from it and applies the profile.
Reload ==
  /\ gs.isGameStarted
  /\ now < StartClock + MaxReloads * 1000
  /\ \E loaded \in {loadGameState(saveGameState(gs, now))} :
       \E engine \in {PixelArtGameEngine(loaded.result, FloorBend, now + 1000)} :
         /\ gs' = [engine EXCEPT !.player.stats = applyProfile(@, profile)]
         /\ ui' = [NoUi EXCEPT !.isGameStarted = engine.isGameStarted,
                               !.isPaused = engine.isPaused]
         /\ store' = loaded.storage
         /\ hasSavedGame' = (loaded.result # Null /\ loaded.result.isGameStarted)
         /\ last' = [op |-> "reload", before |-> Snapshot(gs),
                     saved |-> loaded.result.player.stats]
  /\ kb' = NoInput
  /\ panel' = NoPanel
  /\ now' = now + 1000
  /\ UNCHANGED <<genVars, loop, tabs, profile, frames, ops>>

NextReload ==
  \/ HandleMove \/ HandleStop \/ UpdateGame
  \/ HandleDoorsOpen \/ HandleCharacterCreated \/ HandleDoorsClose
  \/ Reload

SpecReload == InitReload /\ [][NextReload]_vars

(***************************************************************************)
(* Saving and loading                                                      *)
(***************************************************************************)
MaxTicks == 1

\* Versions of the records found in the storage: older, current, newer.
Versions == {SAVE_VERSION - 1, SAVE_VERSION, SAVE_VERSION + 1}

\* The states found in stored records: a sound one and ones that differ
\* from it in one respect.
StoredStates(sound) ==
  { sound,
    [sound EXCEPT !.player.position.x = -100],
    [sound EXCEPT !.player.position.x = sound.map.width * Px(TILE_SIZE)],
    [sound EXCEPT !.player.position.y = -100],
    [sound EXCEPT !.player.position.y = sound.map.height * Px(TILE_SIZE)],
    [sound EXCEPT !.player.stats.health = -1],
    [sound EXCEPT !.player.stats.health = sound.player.stats.maxHealth + 1],
    [sound EXCEPT !.player.stats.stamina = -1],
    [sound EXCEPT !.player.stats.stamina = sound.player.stats.maxStamina + 1],
    [sound EXCEPT !.player.stats.level = 0],
    [sound EXCEPT !.inventory = SubSeq(sound.inventory, 1, INVENTORY_SIZE - 1)],
    [sound EXCEPT !.player = [f \in DOMAIN sound.player \ {"angle"} |-> sound.player[f]]],
    [sound EXCEPT !.player = [f \in DOMAIN sound.player \ {"velocity"} |-> sound.player[f]]] }

StoredRecords ==
  {NoRecord} \cup
  { storageSet([version |-> version, timestamp |-> 0, gameState |-> gameState]) :
      version \in Versions, gameState \in StoredStates(SavedGame("veteran", FloorRoom)) }

\* The valid states offered to saveGameState at time clock.
SavableStates(clock) ==
  { SavedGame("veteran", FloorRoom),
    SavedGame("hoarder", FloorRoom),
    createInitialState(1, FloorBend, clock),
    createNextLevelState(SavedGame("packed", FloorRoom), FloorVault, clock),
    With(SavedGame("packed", FloorRoom), "treasureRoomUnlocked", <<TRUE>>) }

InitSave ==
  /\ GenIdle
  /\ gs = Null /\ kb = NoInput /\ ui = NoUi /\ panel = NoPanel /\ profile = Null
  /\ hasSavedGame = FALSE /\ frames = 0 /\ ops = 0 /\ tabs = NoTabs
  /\ store \in StoredRecords
  /\ now = StartClock
  /\ last = [op |-> "init"]

\* gameStateService.saveGameState(gameState)
SaveGameState ==
  /\ \E gameState \in SavableStates(now) :
       /\ store' = saveGameState(gameState, now)
       /\ last' = [op |-> "save", gameState |-> gameState, clock |-> now]
  /\ UNCHANGED <<genVars, loop, tabs, gs, kb, ui, panel, hasSavedGame, profile, now, frames, ops>>

\* gameStateService.loadGameState()
LoadGameState ==
  /\ \E loaded \in {loadGameState(store)} :
       /\ gs' = loaded.result
       /\ store' = loaded.storage
       /\ last' = [op |-> "load", storage |-> store, returned |-> loaded.result,
                   follows |-> IF last.op = "save" THEN last ELSE [op |-> "other"]]
  /\ UNCHANGED <<genVars, loop, tabs, kb, ui, panel, hasSavedGame, profile, now, frames, ops>>

\* Time passes.
Tick ==
  /\ now < StartClock + MaxTicks * 1000
  /\ now' = now + 1000
  /\ UNCHANGED <<genVars, loop, tabs, gs, kb, ui, panel, hasSavedGame, profile, store, last, frames, ops>>

NextSave == SaveGameState \/ LoadGameState \/ Tick

SpecSave == InitSave /\ [][NextSave]_vars

(***************************************************************************)
(* Items spawned on a new floor                                            *)
(***************************************************************************)
\* Level 4 with two small rooms side by side: fewer FLOOR cells than the
\* items asked for.
FloorCrowded ==
  GameMapOf(generateMap(4,
              [rooms |-> << [x |-> 2, y |-> 2, w |-> 5, h |-> 5],
                            [x |-> 10, y |-> 2, w |-> 5, h |-> 5] >>,
               shopIndex |-> 1, treasure |-> NoVault, extra |-> << <<0, 0>> >>,
               obstacle |-> <<1, 1>>]))

\* The maps items are spawned on, with their levels.
SpawnMaps ==
  { [map |-> FloorBend.map, mapLevel |-> 1], [map |-> FloorRoom.map, mapLevel |-> 1],
    [map |-> FloorVault.map, mapLevel |-> 2], [map |-> FloorCrowded, mapLevel |-> 4] }

\* Cells, relative to the spawn cell, that a shuffle puts first.
DrawChoices ==
  { <<>>, << <<0, 0>>, <<1, 1>> >>, << <<1, 0>>, <<0, 1>>, <<2, 1>> >>,
    << <<0, 1>>, <<0, 2>>, <<2, 0>>, <<2, 2>> >> }

\* A new floor is asked for: the map generated for it and the draws of the
\* shuffles of its item spawner.
InitSpawn ==
  /\ GenIdle
  /\ gs = Null /\ kb = NoInput /\ ui = NoUi /\ panel = NoPanel /\ profile = Null
  /\ hasSavedGame = FALSE
  /\ store = NoRecord /\ now = 0 /\ frames = 0 /\ ops = 0
  /\ tabs = NoTabs
  /\ \E m \in SpawnMaps, coins \in DrawChoices, potions \in DrawChoices,
        staminaPotions \in DrawChoices, rareItems \in {<<>>, << <<1, 2>> >>} :
       last = [op |-> "new", map |-> m.map, mapLevel |-> m.mapLevel,
               draw |-> [coins |-> coins, potions |-> potions,
                         staminaPotions |-> staminaPotions, rareItems |-> rareItems]]

\* GameStateManager.createInitialState on the generated map: the items of
\* spawnAllItems for the draws of its shuffles.
CreateInitialState ==
  /\ gs = Null
  /\ gs' = createInitialState(last.mapLevel, FloorOn(last.map, last.mapLevel, last.draw),
                              now)
  /\ last' = [op |-> "createInitialState", mapLevel |-> last.mapLevel]
  /\ UNCHANGED <<genVars, loop, tabs, kb, ui, panel, hasSavedGame, profile, store, now, frames, ops>>

NextSpawn == CreateInitialState

SpecSpawn == InitSpawn /\ [][NextSpawn]_vars

\* The cell of an item.
ItemCell(item) == <<TileOf(item.position.x), TileOf(item.position.y)>>

\* The items of the vault fill, and the others.
VaultFill(items) == {i \in 1 .. Len(items) : items[i].id[1] = "treasure"}
FloorFill(items) == {i \in 1 .. Len(items) : items[i].id[1] # "treasure"}

\* The number of items of the four categories asked for on the level.
ItemsAsked(mapLevel) ==
  getItemCountsForLevel(mapLevel).coins + getItemCountsForLevel(mapLevel).potions
    + getItemCountsForLevel(mapLevel).staminaPotions
    + getItemCountsForLevel(mapLevel).rareItems

\* C21: in the items of a new floor no two items lie on one cell, each item
\* lies at the centre of its cell, the items of the vault fill lie on
\* FLOOR_LIGHT cells and all others on FLOOR cells, and the items outside
\* the vault are as many as were asked for, or as many as there are FLOOR
\* cells when those are fewer.
C21_ItemsApart ==
  last.op = "createInitialState"
    => /\ \A i, j \in 1 .. Len(gs.items) :
            i # j => ItemCell(gs.items[i]) # ItemCell(gs.items[j])
       /\ \A i \in 1 .. Len(gs.items) :
            gs.items[i].position = CellPosition(ItemCell(gs.items[i]))
       /\ \A i \in VaultFill(gs.items) :
            gs.map.tiles[ItemCell(gs.items[i])] = "FLOOR_LIGHT"
       /\ \A i \in FloorFill(gs.items) :
            gs.map.tiles[ItemCell(gs.items[i])] = "FLOOR"
       /\ Cardinality(FloorFill(gs.items))
            = Min(ItemsAsked(last.mapLevel), CountType(gs.map, "FLOOR"))

\* A floor with fewer FLOOR cells than items asked for: every FLOOR cell
\* holds an item and the last categories got fewer.
C21_Witness ==
  /\ last.op = "createInitialState"
  /\ CountType(gs.map, "FLOOR") < ItemsAsked(last.mapLevel)
  /\ Cardinality(FloorFill(gs.items)) = CountType(gs.map, "FLOOR")
  /\ Len(gs.items) > 0

\* A floor with a vault: items in the vault and items outside it.
C21_VaultFilled ==
  /\ last.op = "createInitialState"
  /\ VaultFill(gs.items) # {}
  /\ FloorFill(gs.items) # {}

(***************************************************************************)
(* Two tabs saving to one storage                                          *)
(***************************************************************************)
MaxCalls == 2
MaxWait == 2000
MaxHides == 1
HiddenTabs == {1}

Tabs == {1, 2}
Faults == {"none", "thrown"}
Waits == {500, 1000}

\* The games a tab can be playing.
TabGames == {SavedGame("veteran", FloorRoom), SavedGame("hoarder", FloorRoom)}

\* A tab after mount: the hook with the savedState it loaded, the game the
\* engine took from it (or a new game), no storage event pending, and no
\* write made yet.
MountedTab(loaded) ==
  [hook |-> useGameState(loaded),
   state |-> IF loaded # Null THEN loaded ELSE SavedGame("none", FloorBend),
   notified |-> FALSE,
   hides |-> 0,
   wroteAt |-> <<>>,
   forcedAt |-> <<>>]

InitTabs ==
  /\ GenIdle
  /\ gs = Null /\ kb = NoInput /\ ui = NoUi /\ panel = NoPanel /\ profile = Null
  /\ hasSavedGame = FALSE /\ frames = 0 /\ ops = 0
  /\ store \in {NoRecord, saveGameState(SavedGame("packed", FloorRoom), 0)}
  /\ tabs = [t \in Tabs |-> MountedTab(loadGameState(store).result)]
  /\ now = StartClock
  /\ last = [op |-> "init", completed |-> <<>>]

\* The tab after a save call, with the times of its writes noted.
TabAfterSave(tab, outcome, forced, clock) ==
  [tab EXCEPT !.hook = outcome.hook,
              !.wroteAt = IF outcome.written THEN <<clock>> ELSE @,
              !.forcedAt = IF outcome.written /\ forced THEN <<clock>> ELSE @]

\* The tabs after the call of tab t; a write notifies the other tabs.
TabsAfterSave(t, outcome, forced, clock) ==
  [u \in Tabs |->
     IF u = t THEN TabAfterSave(tabs[t], outcome, forced, clock)
     ELSE [tabs[u] EXCEPT !.notified = @ \/ outcome.written]]

\* The call as the properties see it.
SaveCall(op, t, fault, outcome) ==
  [op |-> op, tab |-> t, state |-> tabs[t].state, clock |-> now, fault |-> fault,
   attempted |-> outcome.attempted, written |-> outcome.written,
   wroteBefore |-> tabs[t].wroteAt, forcedBefore |-> tabs[t].forcedAt,
   retry |-> /\ last.op = "saveGameState"
             /\ last.tab = t /\ last.attempted /\ ~last.written,
   completed |-> IF outcome.written
                 THEN << [state |-> With(tabs[t].state, "lastSaveTime", now), tab |-> t] >>
                 ELSE last.completed]

\* The auto-save timer of a tab calls the debounced saveGameState.
AutoSave ==
  /\ ops < MaxCalls
  /\ \E t \in Tabs, fault \in Faults :
       \E outcome \in {useGameState_saveGameState(tabs[t].hook, store, tabs[t].state,
                                                   now, fault)} :
         /\ tabs' = TabsAfterSave(t, outcome, FALSE, now)
         /\ store' = outcome.storage
         /\ last' = SaveCall("saveGameState", t, fault, outcome)
  /\ ops' = ops + 1
  /\ UNCHANGED <<genVars, loop, gs, kb, ui, panel, hasSavedGame, profile, now, frames>>

\* A level-up in a tab calls forceSaveGameState.
ForceSave ==
  /\ ops < MaxCalls
  /\ \E t \in Tabs, fault \in Faults :
       \E outcome \in {useGameState_forceSaveGameState(tabs[t].hook, store, tabs[t].state,
                                                        now, fault)} :
         /\ tabs' = TabsAfterSave(t, outcome, TRUE, now)
         /\ store' = outcome.storage
         /\ last' = SaveCall("forceSaveGameState", t, fault, outcome)
  /\ ops' = ops + 1
  /\ UNCHANGED <<genVars, loop, gs, kb, ui, panel, hasSavedGame, profile, now, frames>>

\* The storage event reaches a tab that another tab's write notified.
HandleStorageChange ==
  /\ \E t \in Tabs :
       /\ tabs[t].notified
       /\ \E reloaded \in {handleStorageChange(tabs[t].hook, store)} :
            /\ tabs' = [tabs EXCEPT ![t].hook = reloaded.hook, ![t].notified = FALSE]
            /\ store' = reloaded.storage
       /\ last' = [op |-> "handleStorageChange", tab |-> t,
                   before |-> tabs[t].hook.savedState, completed |-> last.completed]
  /\ UNCHANGED <<genVars, loop, gs, kb, ui, panel, hasSavedGame, profile, now, frames, ops>>

\* The page of a tab becomes hidden.  The tabs are alike, so the page that
\* is hidden is that of the first.
HandleVisibilityChange ==
  /\ \E t \in HiddenTabs, fault \in Faults :
       \E outcome \in {handleVisibilityChange(tabs[t].hook, store, now, fault)} :
         /\ tabs[t].hides < MaxHides
         /\ outcome.attempted
         /\ tabs' = [u \in Tabs |->
                       IF u = t THEN [tabs[t] EXCEPT !.hides = @ + 1]
                       ELSE [tabs[u] EXCEPT !.notified = @ \/ outcome.written]]
         /\ store' = outcome.storage
         /\ last' = [op |-> "handleVisibilityChange", tab |-> t, fault |-> fault,
                     state |-> tabs[t].hook.savedState, before |-> storageGet(store),
                     written |-> outcome.written,
                     completed |-> IF outcome.written
                                   THEN << [state |-> With(tabs[t].hook.savedState,
                                                           "lastSaveTime", now),
                                            tab |-> t] >>
                                   ELSE last.completed]
  /\ UNCHANGED <<genVars, loop, gs, kb, ui, panel, hasSavedGame, profile, now, frames, ops>>

\* The game of a tab goes on.
Play ==
  /\ ops < MaxCalls
  /\ \E t \in Tabs, game \in TabGames :
       /\ game # tabs[t].state
       /\ tabs' = [tabs EXCEPT ![t].state = game]
       /\ last' = [op |-> "play", tab |-> t, completed |-> last.completed]
  /\ ops' = ops + 1
  /\ UNCHANGED <<genVars, loop, gs, kb, ui, panel, hasSavedGame, profile, store, now, frames>>

\* Time passes.
Pass ==
  /\ \E wait \in Waits :
       /\ now + wait <= StartClock + MaxWait
       /\ now' = now + wait
  /\ UNCHANGED <<genVars, loop, tabs, gs, kb, ui, panel, hasSavedGame, profile, store, last,
                 frames, ops>>

NextTabs == AutoSave \/ ForceSave \/ HandleStorageChange \/ Play \/ Pass

SpecTabs == InitTabs /\ [][NextTabs]_vars

\* The same tabs when a page can become hidden.
NextHidden ==
  AutoSave \/ ForceSave \/ HandleStorageChange \/ HandleVisibilityChange \/ Play \/ Pass

SpecHidden == InitTabs /\ [][NextHidden]_vars

(***************************************************************************)
(* The game loop (hooks/useGameLoop.ts)                                    *)
(***************************************************************************)
\* The fps option not given.
NoFps == <<>>

\* The value null of a ref.
NoRef == "null"

\* The fps option: not given, as by the canvas of the game, or a limit.
FpsChoices == {NoFps, <<30>>, <<60>>}

\* Milliseconds between two animation frames.
Gaps == {16, 20, 50, 250}

\* The refs of the hook before its effects ran; requested tells that the
\* browser holds a callback of requestAnimationFrame not yet run.
useGameLoop(enabled, fps) ==
  [enabledRef |-> enabled, fpsRef |-> fps, isPausedRef |-> FALSE, isRunningRef |-> FALSE,
   lastTimeRef |-> NoRef, animationFrameRef |-> NoRef, requested |-> FALSE]

\* start()
start(l) ==
  IF l.isRunningRef THEN l
  ELSE [l EXCEPT !.isRunningRef = TRUE, !.isPausedRef = FALSE, !.lastTimeRef = NoRef,
                 !.animationFrameRef = "frame", !.requested = TRUE]

\* stop(): cancelAnimationFrame of the frame noted, if one is noted.
stop(l) ==
  [l EXCEPT !.requested = IF l.animationFrameRef # NoRef THEN FALSE ELSE @,
            !.animationFrameRef = NoRef,
            !.isRunningRef = FALSE, !.isPausedRef = FALSE, !.lastTimeRef = NoRef]

\* pause()
pause(l) == [l EXCEPT !.isPausedRef = TRUE]

\* A resume that asks for an animation frame when none is requested.
resumeRequestingFrame(l) ==
  IF ~l.isRunningRef THEN start(l)
  ELSE [l EXCEPT !.isPausedRef = FALSE, !.lastTimeRef = NoRef,
                 !.animationFrameRef = "frame", !.requested = TRUE]

\* resume()
resume(l) ==
  IF ~l.isRunningRef THEN start(l)
  ELSE [l EXCEPT !.isPausedRef = FALSE, !.lastTimeRef = NoRef]

\* The effects of a render with the enabled prop changed: the cleanup of
\* the last run stops the loop, enabledRef takes the prop, and the loop is
\* started when enabled.
enabledChanged(l, enabled) ==
  IF enabled THEN start([stop(l) EXCEPT !.enabledRef = TRUE])
  ELSE [stop(l) EXCEPT !.enabledRef = FALSE]

\* deltaTime in milliseconds of the frame that comes gap after the last one.
loopDeltaTime(l, gap) ==
  IF l.lastTimeRef = NoRef THEN 0 ELSE IF gap > 100 THEN 16 ELSE gap

\* The frame is dropped by the fps limit.
fpsLimited(l, deltaTime) ==
  l.fpsRef # NoFps /\ deltaTime > 0 /\ deltaTime * l.fpsRef[1] < 1000

\* gameLoop(currentTime) returns before it does anything.
loopReturnsAtOnce(l) == ~l.enabledRef \/ l.isPausedRef \/ ~l.isRunningRef

\* gameLoop(currentTime): the refs afterwards.
gameLoop(l, gap) ==
  IF loopReturnsAtOnce(l) THEN [l EXCEPT !.requested = FALSE]
  ELSE [l EXCEPT !.lastTimeRef = "time", !.animationFrameRef = "frame", !.requested = TRUE]

\* gameLoop(currentTime) calls onUpdate.
callsOnUpdate(l, gap) ==
  /\ ~loopReturnsAtOnce(l)
  /\ loopDeltaTime(l, gap) > 0
  /\ ~fpsLimited(l, loopDeltaTime(l, gap))

\* The hook after its first render and effects.
InitLoop ==
  /\ gen = Null /\ genpc = "idle"
  /\ gs = Null /\ kb = NoInput /\ ui = NoUi /\ panel = NoPanel /\ profile = Null
  /\ hasSavedGame = FALSE
  /\ store = NoRecord /\ now = 0 /\ frames = 0 /\ ops = 0
  /\ tabs = NoTabs
  /\ \E enabled \in BOOLEAN, fps \in FpsChoices :
       loop = IF enabled THEN start(useGameLoop(enabled, fps))
              ELSE useGameLoop(enabled, fps)
  /\ last = [op |-> "mount", wasPaused |-> FALSE, updated |-> FALSE, deltaTime |-> 0]

\* What the last call was and whether the loop was paused, enabled and
\* running when it was made.
LoopCall(op, updated, deltaTime) ==
  [op |-> op,
   wasPaused |-> loop.isPausedRef /\ loop.enabledRef /\ loop.isRunningRef,
   updated |-> updated, deltaTime |-> deltaTime]

LoopOnly ==
  UNCHANGED <<genVars, gs, kb, ui, panel, hasSavedGame, profile, store, now, frames, ops, tabs>>

\* The browser runs the animation frame requested, gap after the last one.
AnimationFrame(gap) ==
  /\ loop.requested
  /\ loop' = gameLoop(loop, gap)
  /\ last' = LoopCall("gameLoop", callsOnUpdate(loop, gap), loopDeltaTime(loop, gap))
  /\ LoopOnly

StartLoop ==
  /\ loop' = start(loop)
  /\ last' = LoopCall("start", FALSE, 0)
  /\ LoopOnly

StopLoop ==
  /\ loop' = stop(loop)
  /\ last' = LoopCall("stop", FALSE, 0)
  /\ LoopOnly

PauseLoop ==
  /\ loop' = pause(loop)
  /\ last' = LoopCall("pause", FALSE, 0)
  /\ LoopOnly

ResumeLoop ==
  /\ loop' = resume(loop)
  /\ last' = LoopCall("resume", FALSE, 0)
  /\ LoopOnly

\* The component is rendered with the other value of enabled.
EnabledChanged ==
  /\ loop' = enabledChanged(loop, ~loop.enabledRef)
  /\ last' = LoopCall("enabled", FALSE, 0)
  /\ LoopOnly

NextLoop ==
  \/ \E gap \in Gaps : AnimationFrame(gap)
  \/ StartLoop \/ StopLoop \/ PauseLoop \/ ResumeLoop \/ EnabledChanged

\* The browser runs every animation frame requested, and frames come at
\* each of the gaps again and again.
SpecLoop ==
  InitLoop /\ [][NextLoop]_vars /\ \A gap \in Gaps : WF_vars(AnimationFrame(gap))

(***************************************************************************)
(* Properties of the two tabs                                              *)
(***************************************************************************)
SaveOps == {"saveGameState", "forceSaveGameState"}

\* No write was made at the time, or it was made at least ms before the clock.
LongAgo(at, clock, ms) == \A i \in DOMAIN at : clock - at[i] >= ms

\* C16: a debounced save of a hook writes the record only when at least
\* 1000 ms have passed since the last write of that hook and at least 2000 ms
\* since its last forced write; a forced save always attempts its write at
\* once, and when the storage takes it the record is the forced snapshot.
C16_DebounceAndCooldown ==
  /\ (last.op = "saveGameState" /\ last.written)
       => /\ LongAgo(last.wroteBefore, last.clock, 1000)
          /\ LongAgo(last.forcedBefore, last.clock, 2000)
  /\ (last.op = "saveGameState" /\ ~LongAgo(last.forcedBefore, last.clock, 2000))
       => /\ ~last.attempted
          /\ tabs[last.tab].wroteAt = last.wroteBefore
  /\ last.op = "forceSaveGameState"
       => /\ last.attempted
          /\ last.fault = "none"
               => /\ last.written
                  /\ storageGet(store).gameState
                       = With(last.state, "lastSaveTime", last.clock)

\* A debounced save called between 1000 and 2000 ms after a forced save,
\* which the cooldown alone holds back.
C16_Witness ==
  /\ last.op = "saveGameState"
  /\ ~last.attempted
  /\ last.forcedBefore # <<>>
  /\ last.wroteBefore = last.forcedBefore
  /\ last.clock - last.forcedBefore[1] >= 1000
  /\ last.clock - last.forcedBefore[1] < 2000

\* C17: a save whose write fails leaves the record, the game in memory and
\* both timestamps of the hook as they were, and the debounced save called
\* next by the same tab is attempted, not held back by the failed one.
C17_FailedSaveChangesNothing ==
  [][(ops' = ops + 1 /\ last'.op \in SaveOps)
       => /\ tabs'[last'.tab].state = tabs[last'.tab].state
          /\ (last'.attempted /\ ~last'.written)
               => /\ last'.fault # "none"
                  /\ tabs'[last'.tab].hook = tabs[last'.tab].hook
                  /\ store' = store
          /\ last'.retry => last'.attempted]_vars

\* A debounced save that failed, called again by the same tab at once, and
\* written.
C17_Witness ==
  /\ last.op = "saveGameState"
  /\ last.retry
  /\ last.written
  /\ tabs[last.tab].hook.lastSaveTimeRef = last.clock

\* C18: a tab that handles the storage event has as its savedState the state
\* of the save that completed last, whatever it held or played before, and
\* the record in storage is always that state.
C18_LastWriteWins ==
  /\ last.op = "handleStorageChange"
       => /\ last.completed # <<>>
          /\ tabs[last.tab].hook.savedState = last.completed[1].state
  /\ last.completed # <<>>
       => /\ storageGet(store) # Null
          /\ storageGet(store).gameState = last.completed[1].state

\* A tab playing another game reloads what the other tab saved.
C18_Witness ==
  /\ last.op = "handleStorageChange"
  /\ last.completed[1].tab # last.tab
  /\ last.before # tabs[last.tab].hook.savedState
  /\ tabs[last.tab].state.player.stats # tabs[last.tab].hook.savedState.player.stats
  /\ tabs[last.tab].hook.savedState
       = With(tabs[last.completed[1].tab].state, "lastSaveTime", now)

WriteOps == SaveOps \cup {"handleVisibilityChange"}

\* C25: every write of the record made by a handler of a running session
\* (the auto-save timer, a forced save, the page becoming hidden) stores the
\* state the engine of that tab holds at that moment, so no write puts an
\* older snapshot over the one stored.
C25_WritesCurrentState ==
  [][(last'.op \in WriteOps /\ store' # store)
       => /\ storageGet(store') # Null
          /\ storageGet(store').gameState
               = With(tabs'[last'.tab].state, "lastSaveTime", now)]_vars

\* The page is hidden after the game played on was saved: the record held
\* the engine's state, and now holds the state the hook loaded at mount.
C25_OlderOverNewer ==
  /\ last.op = "handleVisibilityChange"
  /\ last.written
  /\ last.before # Null
  /\ last.before.gameState
       = With(tabs[last.tab].state, "lastSaveTime", last.before.gameState.lastSaveTime)
  /\ storageGet(store).gameState.player.stats # tabs[last.tab].state.player.stats
  /\ storageGet(store).gameState = With(last.state, "lastSaveTime", now)
  /\ last.state.lastSaveTime < last.before.gameState.lastSaveTime

(***************************************************************************)
(* Properties of the game                                                  *)
(***************************************************************************)
\* C3: whatever items were collected by frames, removed through the panel
\* or sold, the inventory has exactly INVENTORY_SIZE slots, the slot at
\* position i carries index i, and at most INVENTORY_SIZE slots are occupied.
C3_InventoryShape ==
  /\ Len(gs.inventory) = INVENTORY_SIZE
  /\ \A i \in 1 .. Len(gs.inventory) : gs.inventory[i].index = i - 1
  /\ Cardinality({i \in 1 .. Len(gs.inventory) : gs.inventory[i].item # NoItem})
       <= INVENTORY_SIZE

\* A sale out of a full inventory that a frame's collection had filled.
C3_Witness ==
  /\ last.op = "sellItem"
  /\ frames = 1
  /\ \A i \in 1 .. INVENTORY_SIZE : last.before.inventory[i].item # NoItem
  /\ gs.inventory[INVENTORY_SIZE].item = NoItem

\* Experience needed in total to hold a level: the sum of the entries of
\* XP_PER_LEVEL up to it.
RECURSIVE Threshold(_)
Threshold(level) ==
  IF level <= 1 THEN 0 ELSE Threshold(level - 1) + XP_PER_LEVEL[level]

\* The level the table gives to an amount of experience.
TableLevel(experience) ==
  CHOOSE level \in 1 .. Len(XP_PER_LEVEL) :
    /\ Threshold(level) <= experience
    /\ level = Len(XP_PER_LEVEL) \/ experience < Threshold(level + 1)

\* C4: after a grant of experience (a frame's pickup, sellItem,
\* sellResources) the level is not below the level before, it is the level
\* of the table for the experience held, 5000 points granted to a player
\* with no experience give level 11, and the level is never above 15.
C4_LevelFollowsTable ==
  /\ gs.player.stats.level = TableLevel(gs.player.stats.experience)
  /\ gs.player.stats.level <= Len(XP_PER_LEVEL)
  /\ last.op \in {"updateGame", "sellItem", "sellResources"}
       => /\ gs.player.stats.experience >= last.before.stats.experience
          /\ gs.player.stats.level >= last.before.stats.level
  /\ (last.op = "sellResources" /\ last.returned = 5000
        /\ last.before.stats.experience = 0)
       => gs.player.stats.level = 11

\* 5000 points granted at once to a player of level 1 without experience.
C4_Witness ==
  /\ last.op = "sellResources"
  /\ last.returned = 5000
  /\ last.before.stats.level = 1
  /\ last.before.stats.experience = 0
  /\ gs.player.stats.level = 11

\* C5: a frame that reaches an artifact while all slots are occupied gets a
\* failed collection without experience, and afterwards the artifact is still
\* uncollected and experience, level, inventory, coins and the resource
\* counters are what they were before the frame.
C5_FullInventoryKeepsArtifact ==
  (/\ last.op = "updateGame"
   /\ last.pickup.type = "RARE_ITEM"
   /\ \A i \in 1 .. INVENTORY_SIZE : last.before.inventory[i].item # NoItem)
    => /\ ~last.pickup.success
       /\ ~last.pickup.addedToInventory
       /\ last.pickup.experienceGained = 0
       /\ ~gs.items[last.pickup.index].collected
       /\ gs.player.stats.experience = last.before.stats.experience
       /\ gs.player.stats.level = last.before.stats.level
       /\ gs.inventory = last.before.inventory
       /\ gs.coins = last.before.coins
       /\ gs.collectedResources = last.before.collectedResources

\* A frame reached an artifact with all slots occupied.
C5_Witness ==
  /\ last.op = "updateGame"
  /\ last.pickup.type = "RARE_ITEM"
  /\ \A i \in 1 .. INVENTORY_SIZE : last.before.inventory[i].item # NoItem
  /\ ~gs.items[last.pickup.index].collected

\* C8: stamina stays between 0 and maxStamina and health between 0 and
\* maxHealth through frames, inputs, potions and floor transitions.
C8_StatsInBounds ==
  /\ 0 <= gs.player.stats.stamina
  /\ gs.player.stats.stamina <= gs.player.stats.maxStamina
  /\ 0 <= gs.player.stats.health
  /\ gs.player.stats.health <= gs.player.stats.maxHealth

\* A running frame whose drain exceeds the stamina left and which reaches a
\* potion that restores more than the health missing: both are cut off.
C8_Witness ==
  /\ last.op = "updateGame"
  /\ last.before.stats.stamina > 0
  /\ last.before.stats.stamina < STAMINA_DRAIN_RATE * last.dt
  /\ gs.player.movementType = "RUN"
  /\ gs.player.stats.stamina = 0
  /\ last.pickup.type = "POTION"
  /\ last.pickup.success
  /\ last.before.stats.health + POTION_HEALTH_RESTORE > last.before.stats.maxHealth
  /\ gs.player.stats.health = gs.player.stats.maxHealth

\* C9: a frame that starts without stamina and with a run input moves the
\* player by the walking distance at most and does not leave the movement
\* type RUN.
C9_NoRunWithoutStamina ==
  (/\ last.op = "updateGame"
   /\ last.before.stats.stamina = 0
   /\ last.input.movementType = "RUN")
    => /\ Abs(gs.player.position.x - last.before.position.x)
            <= moveDistance(WALK_SPEED, last.dt)
       /\ Abs(gs.player.position.y - last.before.position.y)
            <= moveDistance(WALK_SPEED, last.dt)
       /\ gs.player.movementType # "RUN"

\* A frame without stamina and with a run input moved the player.
C9_Witness ==
  /\ last.op = "updateGame"
  /\ last.before.stats.stamina = 0
  /\ last.input.movementType = "RUN"
  /\ gs.player.position # last.before.position
  /\ gs.player.movementType = "WALK"

\* C10: no sample point of the player's outline is outside the grid or on a
\* wall, an obstacle or a closed door, from the spawn position on and after
\* every frame.
C10_OutlineClear ==
  \A point \in checkPoints(gs.player.position.x, gs.player.position.y) :
     ~PointBlocked(point, gs.map)

\* A frame with a direction input left the player where it was: the move
\* was blocked.
C10_Witness ==
  /\ last.op = "updateGame"
  /\ last.input.direction # NoDirection
  /\ gs.player.position = last.before.position

\* The closed vault doors in door-opening range of the player.
VaultDoorsInRange(state) ==
  {c \in CellsAround(state.player.position.x, state.player.position.y, state.map) :
     /\ state.map.tiles[c] = "TREASURE_DOOR"
     /\ closerThan(state.player.position.x - TileCenter(c[1]),
                   state.player.position.y - TileCenter(c[2]),
                   (3 * Px(TILE_SIZE)) \div 2)}

\* C11: a frame changes no cell but a DOOR to DOOR_OPEN or a DOOR_WIDE to
\* DOOR_WIDE_OPEN, so a TREASURE_DOOR stays as it is however close the
\* player stands; a TREASURE_DOOR cell becomes TREASURE_DOOR_OPEN only in a
\* step of unlockTreasureRoom.
C11_VaultDoorNotAutoOpened ==
  [][/\ frames' = frames + 1 =>
          /\ DOMAIN gs'.map.tiles = DOMAIN gs.map.tiles
          /\ \A c \in DOMAIN gs.map.tiles :
                \/ gs'.map.tiles[c] = gs.map.tiles[c]
                \/ gs.map.tiles[c] = "DOOR" /\ gs'.map.tiles[c] = "DOOR_OPEN"
                \/ gs.map.tiles[c] = "DOOR_WIDE" /\ gs'.map.tiles[c] = "DOOR_WIDE_OPEN"
     /\ (\E c \in DOMAIN gs.map.tiles \cap DOMAIN gs'.map.tiles :
           gs.map.tiles[c] = "TREASURE_DOOR" /\ gs'.map.tiles[c] = "TREASURE_DOOR_OPEN")
          => last'.op = "unlockTreasureRoom"]_vars

\* A frame ended with the player in door-opening range of a vault door that
\* is still closed.
C11_Witness ==
  /\ last.op = "updateGame"
  /\ VaultDoorsInRange(gs) # {}

\* C13: the run state is always NotStarted (isGameStarted false, isPaused
\* false), Started (true, false) or Paused (true, true): no call leads to
\* isGameStarted false with isPaused true, isPaused becomes true only in a
\* step from Started, and a step that starts a game ends in Started.
C13_RunStates ==
  [][/\ ~(~gs'.isGameStarted /\ gs'.isPaused)
     /\ (gs'.isPaused /\ ~gs.isPaused) => gs.isGameStarted
     /\ (last' # last /\ last'.op \in {"startGame", "restartGame"})
          => (gs'.isGameStarted /\ ~gs'.isPaused)]_vars

\* C14: a goToNextLevel step on a floor below MAX_LEVEL ends on a newly
\* generated floor one level up, with inventory, coins and collected
\* resources as before, level and experience as before, health raised by 20
\* up to maxHealth, stamina at maxStamina, the vault flag false, the game
\* started and not paused; on floor MAX_LEVEL the step changes nothing.
C14_NextFloor ==
  [][(ops' = ops + 1 /\ last'.op = "goToNextLevel")
       => IF gs.mapLevel < MAX_LEVEL
          THEN /\ gs'.mapLevel = gs.mapLevel + 1
               /\ \E floor \in Floors(gs'.mapLevel) :
                    /\ gs'.map = floor.map
                    /\ gs'.player.position = floor.spawn
                    /\ \A i \in 1 .. Len(gs'.items) : ~gs'.items[i].collected
               /\ gs'.inventory = gs.inventory
               /\ gs'.coins = gs.coins
               /\ gs'.collectedResources = gs.collectedResources
               /\ gs'.player.stats.level = gs.player.stats.level
               /\ gs'.player.stats.experience = gs.player.stats.experience
               /\ gs'.player.stats.maxHealth = gs.player.stats.maxHealth
               /\ gs'.player.stats.maxStamina = gs.player.stats.maxStamina
               /\ gs'.player.stats.health
                    = Min(gs.player.stats.maxHealth, gs.player.stats.health + 20)
               /\ gs'.player.stats.stamina = gs.player.stats.maxStamina
               /\ Field(gs', "treasureRoomUnlocked") = <<FALSE>>
               /\ gs'.isGameStarted /\ ~gs'.isPaused
          ELSE gs' = gs /\ store' = store /\ ui' = ui]_vars

\* A hurt player with a full inventory arrived on floor 2: the health rose
\* by 20 and stayed below maxHealth.
C14_Witness ==
  /\ last.op = "goToNextLevel"
  /\ gs.mapLevel = 2
  /\ last.before.stats.health + 20 < last.before.stats.maxHealth
  /\ gs.player.stats.health = last.before.stats.health + 20
  /\ getUsedSlotsCount(gs.inventory) = INVENTORY_SIZE

\* goToNextLevel was called on the last floor.
C14_LastFloorReached ==
  /\ last.op = "goToNextLevel"
  /\ gs.mapLevel = MAX_LEVEL

\* C15: a resetGame step, from whatever state, ends on a newly generated
\* floor 1 with level 1, no experience, no coins, all collected-resource
\* counters 0, ten empty inventory slots, the vault locked and isPaused
\* false.
C15_ResetDiscardsProgress ==
  [][(ops' = ops + 1 /\ last'.op = "resetGame")
       => /\ gs'.mapLevel = 1
          /\ \E floor \in Floors(1) :
               /\ gs'.map = floor.map
               /\ gs'.player.position = floor.spawn
               /\ \A i \in 1 .. Len(gs'.items) : ~gs'.items[i].collected
          /\ gs'.player.stats.level = 1
          /\ gs'.player.stats.experience = 0
          /\ gs'.coins = 0
          /\ gs'.collectedResources.coins = 0
          /\ gs'.collectedResources.healthPotions = 0
          /\ gs'.collectedResources.staminaPotions = 0
          /\ Len(gs'.inventory) = INVENTORY_SIZE
          /\ \A i \in 1 .. Len(gs'.inventory) : gs'.inventory[i].item = NoItem
          /\ Field(gs', "treasureRoomUnlocked") # <<TRUE>>
          /\ \A c \in DOMAIN gs'.map.tiles : gs'.map.tiles[c] # "TREASURE_DOOR_OPEN"
          /\ ~gs'.isPaused]_vars

\* A reset of a game that carried artifacts and experience: the inventory
\* is empty afterwards.
C15_Witness ==
  /\ last.op = "resetGame"
  /\ getUsedSlotsCount(last.before.inventory) > 0
  /\ last.before.stats.experience > 0
  /\ gs.mapLevel = 1
  /\ getUsedSlotsCount(gs.inventory) = 0

\* C19: sellItem on an occupied slot returns the fixed price of the item's
\* type (COIN 5, POTION 15, STAMINA_POTION 12, RARE_ITEM 50), adds it to the
\* experience, sets the level to the level of the experience held, and
\* empties that slot and no other; on an empty slot or one past the end it
\* returns 0 and the game state, the record and the HUD flags stay as they were.
C19_SellItem ==
  [][(ops' = ops + 1 /\ last'.op = "sellItem")
       => IF slotHasItem(gs, last'.slot)
          THEN /\ <<ITEM_SELL_PRICES("COIN"), ITEM_SELL_PRICES("POTION"),
                    ITEM_SELL_PRICES("STAMINA_POTION"), ITEM_SELL_PRICES("RARE_ITEM")>>
                    = <<5, 15, 12, 50>>
               /\ last'.returned
                    = CASE gs.inventory[last'.slot + 1].item.type = "COIN" -> 5
                        [] gs.inventory[last'.slot + 1].item.type = "POTION" -> 15
                        [] gs.inventory[last'.slot + 1].item.type = "STAMINA_POTION" -> 12
                        [] gs.inventory[last'.slot + 1].item.type = "RARE_ITEM" -> 50
               /\ gs'.player.stats.experience
                    = gs.player.stats.experience + last'.returned
               /\ gs'.player.stats.level = calculateLevel(gs'.player.stats.experience)
               /\ gs'.inventory[last'.slot + 1].item = NoItem
               /\ \A i \in 1 .. Len(gs.inventory) :
                    i # last'.slot + 1 => gs'.inventory[i] = gs.inventory[i]
               /\ Len(gs'.inventory) = Len(gs.inventory)
          ELSE /\ last'.returned = 0
               /\ gs' = gs
               /\ store' = store
               /\ ui' = ui]_vars

\* A sale of the artifact in the first slot for 50 points while other slots
\* stay occupied.
C19_Witness ==
  /\ last.op = "sellItem"
  /\ last.slot = 0
  /\ last.returned = 50
  /\ last.before.inventory[1].item # NoItem
  /\ gs.inventory[1].item = NoItem
  /\ gs.inventory[2].item # NoItem
  /\ gs.player.stats.experience = last.before.stats.experience + 50

\* A call of sellItem for a slot past the end of the inventory, or for an
\* empty one, after which nothing was paid.
C19_Rejected ==
  /\ last.op = "sellItem"
  /\ last.slot = INVENTORY_SIZE
  /\ last.returned = 0

\* No counter of the resources is lower in the second state than in the first.
countersKept(before, after) ==
  /\ after.coins >= before.coins
  /\ after.healthPotions >= before.healthPotions
  /\ after.staminaPotions >= before.staminaPotions

NoResources == [coins |-> 0, healthPotions |-> 0, staminaPotions |-> 0]

\* The operations that begin a new game.
NewGameOps == {"resetGame", "restartGame"}

\* C20: within a game no counter of the collected resources decreases in a
\* frame, a pause or resume, sellItem, the vault unlock, a floor transition
\* or any other step but sellResources; sellResources with a counter above
\* zero returns and grants 2 * coins + 8 * healthPotions + 6 * staminaPotions
\* and sets all three to zero, and with all three at zero it returns 0 and
\* changes nothing.
C20_ResourceCounters ==
  [][/\ ~(ops' = ops + 1 /\ last'.op \in NewGameOps \cup {"sellResources"})
          => countersKept(gs.collectedResources, gs'.collectedResources)
     /\ (ops' = ops + 1 /\ last'.op = "sellResources")
          => IF gs.collectedResources = NoResources
             THEN /\ last'.returned = 0
                  /\ gs' = gs
                  /\ store' = store
                  /\ ui' = ui
             ELSE /\ last'.returned = 2 * gs.collectedResources.coins
                                        + 8 * gs.collectedResources.healthPotions
                                        + 6 * gs.collectedResources.staminaPotions
                  /\ gs'.player.stats.experience
                       = gs.player.stats.experience + last'.returned
                  /\ gs'.collectedResources = NoResources]_vars

\* A sale of resources that a frame had added to.
C20_Witness ==
  /\ last.op = "sellResources"
  /\ frames = 1
  /\ last.returned > 0
  /\ last.before.collectedResources # NoResources
  /\ gs.collectedResources = NoResources

\* A call of sellResources with nothing to sell.
C20_Rejected ==
  /\ last.op = "sellResources"
  /\ last.returned = 0
  /\ last.before.collectedResources = NoResources

\* A frame in which a pickup raised the level of the player.
LevelUpFrame == frames' = frames + 1 /\ gs'.player.stats.level > gs.player.stats.level

\* C24: after a frame whose pickup raised the level, the record written by
\* the forced save holds the state of the engine at the end of that frame:
\* its stats, coins, resource counters, inventory and items.
C24_LevelUpSnapshot ==
  [][LevelUpFrame
       => /\ storageGet(store') # Null
          /\ storageGet(store').gameState.player = gs'.player
          /\ storageGet(store').gameState.coins = gs'.coins
          /\ storageGet(store').gameState.collectedResources = gs'.collectedResources
          /\ storageGet(store').gameState.inventory = gs'.inventory
          /\ storageGet(store').gameState.items = gs'.items]_vars

\* A frame that collected an artifact and raised the level: the engine holds
\* the artifact in a slot, the record written in the frame does not.
C24_StaleSnapshot ==
  /\ last.op = "updateGame"
  /\ gs.player.stats.level > last.before.stats.level
  /\ getUsedSlotsCount(gs.inventory) > getUsedSlotsCount(last.before.inventory)
  /\ storageGet(store) # Null
  /\ storageGet(store).gameState.player.stats.level = gs.player.stats.level
  /\ storageGet(store).gameState.inventory = last.before.inventory

\* C26: removing an item through the inventory panel empties one slot of
\* the engine's inventory and leaves every other slot as the engine held it
\* before the removal, items collected after the panel was mounted included.
C26_PanelRemovesOneSlot ==
  [][(ops' = ops + 1 /\ last'.op = "removeItem")
       => \E i \in DOMAIN gs.inventory :
            /\ gs.inventory[i].item # NoItem
            /\ gs'.inventory[i].item = NoItem
            /\ \A j \in DOMAIN gs.inventory \ {i} :
                 gs'.inventory[j] = gs.inventory[j]]_vars

\* An item collected while the panel was mounted, gone from the engine's
\* inventory after another item was removed through the panel.
C26_PickupLost ==
  /\ last.op = "removeItem"
  /\ getUsedSlotsCount(gs.inventory) + 2 = getUsedSlotsCount(last.before.inventory)
  /\ gs.inventory = panel

\* The stats a reload is to keep.
Vitals(stats) ==
  [health |-> stats.health, maxHealth |-> stats.maxHealth,
   stamina |-> stats.stamina, maxStamina |-> stats.maxStamina]

\* C27: with the profile unchanged, a game saved and opened again has the
\* maxHealth, maxStamina, health and stamina that were saved: the bonus of
\* the stamina upgrades is neither added again nor reset by a reload.
C27_ReloadKeepsVitals ==
  [][(now' # now /\ last'.op = "reload")
       => /\ Vitals(last'.saved) = Vitals(gs.player.stats)
          /\ Vitals(gs'.player.stats) = Vitals(last'.saved)]_vars

\* A reload that added the bonus of the upgrades to a maxStamina that held
\* it already.
C27_BonusAddedAgain ==
  /\ last.op = "reload"
  /\ profile.staminaUpgrades > 0
  /\ last.saved.maxStamina
       = CHARACTER_PRESETS(profile.selectedCharacterClass).maxStamina
           + staminaBonusOf(profile)
  /\ gs.player.stats.maxStamina = last.saved.maxStamina + staminaBonusOf(profile)

\* The reload after it, which puts health and stamina back to those of the
\* class.
C27_VitalsReset ==
  /\ last.op = "reload"
  /\ gs.player.stats.maxStamina < last.saved.maxStamina
  /\ gs.player.stats.stamina
       = CHARACTER_PRESETS(profile.selectedCharacterClass).stamina + staminaBonusOf(profile)
  /\ gs.player.stats.stamina # last.saved.stamina

\* A frame with a direction held that leaves the player where they were: the
\* full move was rejected.
BlockedFrame ==
  /\ frames' = frames + 1
  /\ last'.input.direction # NoDirection
  /\ gs'.player.position = gs.player.position

\* The place of the player is free of the map, so of the moves along X and
\* along Y of a frame the one of length 0 is never rejected.
PlaceIsFree ==
  gs # Null => ~checkMapCollision(gs.player.position.x, gs.player.position.y, gs.map)

\* C28: a frame whose moves are rejected leaves the position unchanged, and
\* after it isMoving is false and the velocity is zero, so that no stamina
\* is drained while the player keeps running into a wall.
C28_NoDrainAtWall ==
  [][BlockedFrame
       => /\ ~gs'.player.isMoving
          /\ gs'.player.velocity = [x |-> 0, y |-> 0]
          /\ gs'.player.stats.stamina >= gs.player.stats.stamina]_vars

\* A frame of running into a wall: the player stays, is moving, and has
\* less stamina than before.
C28_DrainedAtWall ==
  /\ last.op = "updateGame"
  /\ last.input.direction # NoDirection
  /\ last.input.movementType = "RUN"
  /\ gs.player.position = last.before.position
  /\ gs.player.isMoving
  /\ gs.player.movementType = "RUN"
  /\ gs.player.velocity = [x |-> 0, y |-> 0]
  /\ gs.player.stats.stamina < last.before.stats.stamina

\* C29: after any sequence of the actions of the game hook the run flags
\* of the UI are those of the engine: uiState.isPaused equals the engine's
\* isPaused and uiState.isGameStarted equals the engine's isGameStarted.
C29_RunFlagsAgree ==
  /\ ui.isPaused = gs.isPaused
  /\ ui.isGameStarted = gs.isGameStarted

\* A paused game taken to the next floor: the engine runs, the UI shows a
\* pause.
C29_PausedUiRunningEngine ==
  /\ last.op = "goToNextLevel"
  /\ gs.mapLevel > 1
  /\ ui.isPaused
  /\ ~gs.isPaused

\* The loop was resumed from a pause, enabled and running.
ResumedFromPause == last.op = "resume" /\ last.wasPaused

\* A call since then that stops or pauses the loop.
LoopInterrupted == last.op \in {"stop", "pause", "enabled"}

\* C30: after pause() and then resume() of a loop that is enabled and
\* running, onUpdate is called again on a later animation frame, whatever
\* frames ran between the two calls, unless the loop is paused or stopped
\* again.
C30_ResumeRestartsUpdates ==
  ResumedFromPause ~> ((last.op = "gameLoop" /\ last.updated) \/ LoopInterrupted)

\* The loop resumed after a frame ran during the pause: enabled, running,
\* not paused, and no animation frame requested.
C30_Stalled ==
  /\ ResumedFromPause
  /\ loop.enabledRef /\ loop.isRunningRef /\ ~loop.isPausedRef
  /\ ~loop.requested

(***************************************************************************)
(* Properties of saving and loading                                        *)
(***************************************************************************)
\* The conditions of the validation gate on a stored state.
GatePasses(gameState) ==
  /\ gameState.player.position.x >= 0
  /\ gameState.player.position.x < gameState.map.width * Px(TILE_SIZE)
  /\ gameState.player.position.y >= 0
  /\ gameState.player.position.y < gameState.map.height * Px(TILE_SIZE)
  /\ 0 <= gameState.player.stats.health
  /\ gameState.player.stats.health <= gameState.player.stats.maxHealth
  /\ 0 <= gameState.player.stats.stamina
  /\ gameState.player.stats.stamina <= gameState.player.stats.maxStamina
  /\ gameState.player.stats.level >= 1
  /\ Len(gameState.inventory) = INVENTORY_SIZE

\* The record a load found in the storage.
Found == parse(last.storage.text)

C7_RoundTripEqual ==
  (last.op = "load" /\ last.follows.op = "save" /\ GatePasses(last.follows.gameState))
    => /\ last.returned # Null
       /\ \A f \in DOMAIN last.follows.gameState \cup DOMAIN last.returned :
            Field(last.returned, f) = Field(last.follows.gameState, f)

\* C7: a load right after a save of a valid state returns a state equal to
\* the saved one in every field but lastSaveTime, which is the time of the
\* save.
C7_RoundTripButSaveTime ==
  (last.op = "load" /\ last.follows.op = "save" /\ GatePasses(last.follows.gameState))
    => /\ last.returned # Null
       /\ \A f \in (DOMAIN last.follows.gameState \cup DOMAIN last.returned)
                     \ {"lastSaveTime"} :
            Field(last.returned, f) = Field(last.follows.gameState, f)
       /\ last.returned.lastSaveTime = last.follows.clock

\* A state whose lastSaveTime was not the time of the save came back.
C7_Witness ==
  /\ last.op = "load"
  /\ last.follows.op = "save"
  /\ last.returned # Null
  /\ last.follows.gameState.lastSaveTime # last.follows.clock
  /\ last.returned.lastSaveTime = last.follows.clock
  /\ last.returned.inventory = last.follows.gameState.inventory

====
